---------------------------- MODULE Spec2Model ----------------------------
(***************************************************************************)
(* Jejemonly: the jejemon text normalizer (J3jemonly package).             *)
(*                                                                         *)
(* A Python str is modelled as a sequence of one-character strings, so     *)
(* that case folding, slicing, searching and replacing are computed and    *)
(* not assumed.  A Python dict is modelled as a sequence of <<key, value>> *)
(* pairs with distinct keys, in insertion order (Python dicts iterate in   *)
(* insertion order).  None is the one-element sequence None, which is no   *)
(* string of the model because "<None>" is not a character.                *)
(***************************************************************************)
EXTENDS Integers, Sequences, FiniteSets, TLC

VARIABLES
    files,                 \* the four resources on disk, by name
    phase,                 \* "new" | "ready" | "failed": JejemonNormalizer()
    words_set,             \* LexiconManager.words_set
    jejemon_to_normal,     \* LexiconManager.jejemon_to_normal (dict)
    common_replacements,   \* LexiconManager.common_replacements (dict)
    letter_variants,       \* LexiconManager.letter_variants (dict of lists)
    variant_to_letter,     \* LexiconManager.variant_to_letter (dict)
    context_replacements,  \* JejemonNormalizer.context_replacements (dict)
    op,                    \* the last call made on the normalizer
    arg,                   \* its arguments
    ret,                   \* what it returned
    prev,                  \* history: the call before the last and the tables before the last
    calls,                 \* history: the number of calls made on the normalizer
    threads                \* the calls in progress in a writer and a reader thread

vars == <<files, phase, words_set, jejemon_to_normal, common_replacements,
          letter_variants, variant_to_letter, context_replacements,
          op, arg, ret, prev, calls, threads>>

tables == <<words_set, jejemon_to_normal, common_replacements,
            letter_variants, variant_to_letter, context_replacements>>

-----------------------------------------------------------------------------
(* Characters and strings *)

UpperSeq == <<"A","B","C","D","E","F","G","H","I","J","K","L","M",
              "N","O","P","Q","R","S","T","U","V","W","X","Y","Z">>
LowerSeq == <<"a","b","c","d","e","f","g","h","i","j","k","l","m",
              "n","o","p","q","r","s","t","u","v","w","x","y","z">>
UpperChars == {UpperSeq[i] : i \in DOMAIN UpperSeq}
LowerChars == {LowerSeq[i] : i \in DOMAIN LowerSeq}
Digits == {"0","1","2","3","4","5","6","7","8","9"}
Letters == UpperChars \cup LowerChars
AlNum == Letters \cup Digits
\* \w of the re module, on ASCII
WordChars == AlNum \cup {"_"}
\* str.split() separators
Whitespace == {" "}

LowerTab == [c \in UpperChars |-> LowerSeq[CHOOSE i \in DOMAIN UpperSeq : UpperSeq[i] = c]]

\* str.lower() of one character
LowerChar(c) == IF c \in UpperChars THEN LowerTab[c] ELSE c

\* str.lower()
Lower(s) == [i \in DOMAIN s |-> LowerChar(s[i])]

\* s[i:j] with 1-based inclusive bounds, empty when i > j
Slice(s, i, j) == IF i > j THEN <<>> ELSE SubSeq(s, i, j)

\* s.startswith(p)
StartsWith(s, p) == Len(p) <= Len(s) /\ SubSeq(s, 1, Len(p)) = p

\* s.endswith(p)
EndsWith(s, p) == Len(p) <= Len(s) /\ SubSeq(s, Len(s) - Len(p) + 1, Len(s)) = p

\* whether p occurs in s at 1-based position i
OccursAt(s, p, i) == i + Len(p) - 1 <= Len(s) /\ SubSeq(s, i, i + Len(p) - 1) = p

\* p in s
Contains(s, p) == \E i \in 1..(Len(s) + 1) : OccursAt(s, p, i)

RECURSIVE ReplaceFrom(_, _, _, _)
ReplaceFrom(s, old, new, i) ==
    IF i > Len(s) THEN <<>>
    ELSE IF OccursAt(s, old, i)
         THEN new \o ReplaceFrom(s, old, new, i + Len(old))
         ELSE <<s[i]>> \o ReplaceFrom(s, old, new, i + 1)

RECURSIVE Interleave(_, _, _)
Interleave(s, new, i) ==
    IF i > Len(s) THEN new ELSE new \o <<s[i]>> \o Interleave(s, new, i + 1)

\* str.replace(old, new): every non-overlapping occurrence, left to right
StrReplace(s, old, new) ==
    IF old = <<>> THEN Interleave(s, new, 1) ELSE ReplaceFrom(s, old, new, 1)

RECURSIVE ReplaceFromCI(_, _, _, _)
ReplaceFromCI(s, old, new, i) ==
    IF i > Len(s) THEN <<>>
    ELSE IF OccursAt(Lower(s), Lower(old), i)
         THEN new \o ReplaceFromCI(s, old, new, i + Len(old))
         ELSE <<s[i]>> \o ReplaceFromCI(s, old, new, i + 1)

\* re.sub(re.escape(old), new, s, flags=re.IGNORECASE)
SubIgnoreCase(s, old, new) ==
    IF old = <<>> THEN Interleave(s, new, 1) ELSE ReplaceFromCI(s, old, new, 1)

RECURSIVE SplitFrom(_, _, _)
SplitFrom(s, i, cur) ==
    IF i > Len(s) THEN (IF cur = <<>> THEN <<>> ELSE <<cur>>)
    ELSE IF s[i] \in Whitespace
         THEN (IF cur = <<>> THEN <<>> ELSE <<cur>>) \o SplitFrom(s, i + 1, <<>>)
         ELSE SplitFrom(s, i + 1, Append(cur, s[i]))

\* str.split(): the maximal runs of non-whitespace
Split(s) == SplitFrom(s, 1, <<>>)

RECURSIVE Join(_)
\* ' '.join(words)
Join(words) ==
    IF words = <<>> THEN <<>>
    ELSE IF Len(words) = 1 THEN words[1]
    ELSE words[1] \o <<" ">> \o Join(Tail(words))

-----------------------------------------------------------------------------
(* Python values *)

None == <<"<None>">>

\* no call in progress in the writer thread, none in the reader thread
NoThreads ==
    [writer |-> [pc |-> "idle", letter |-> <<>>, variant |-> <<>>,
                 before |-> <<>>],
     reader |-> [pc |-> "idle", word |-> <<>>, order |-> <<>>, i |-> 0,
                 result |-> <<>>, seen |-> <<>>, overlapped |-> FALSE]]

\* the truth value of an Optional[str]
Truthy(v) == v # None /\ v # <<>>

\* the list of a dict's keys
Keys(d) == [i \in DOMAIN d |-> d[i][1]]

\* key in d
HasKey(d, k) == \E i \in DOMAIN d : d[i][1] = k

\* d.get(k)
DictGet(d, k) ==
    IF HasKey(d, k) THEN d[CHOOSE i \in DOMAIN d : d[i][1] = k][2] ELSE None

\* d[k] = v: a new key goes last, an old key keeps its place
DictSet(d, k, v) ==
    IF HasKey(d, k)
    THEN [i \in DOMAIN d |-> IF d[i][1] = k THEN <<k, v>> ELSE d[i]]
    ELSE Append(d, <<k, v>>)

\* two dicts are equal when they hold the same items, in any order
DictEq(d, e) == {d[i] : i \in DOMAIN d} = {e[i] : i \in DOMAIN e}

-----------------------------------------------------------------------------
(* EditDistance (edit_distance.py).  A float in [0,1] that the code computes *)
(* as 1.0 - d/m is modelled as the exact fraction <<m - d, m>>; comparisons *)
(* of fractions are by cross-multiplication.                                 *)

Min2(a, b) == IF a < b THEN a ELSE b
Max2(a, b) == IF a > b THEN a ELSE b

RECURSIVE CurrentRowAlwaysSubstitutes(_, _, _, _)
\* the inner loop with "+ 1" for "+ (c1 != c2)": a mutant
CurrentRowAlwaysSubstitutes(previous_row, c1, s2, cur) ==
    LET j == Len(cur) IN
    IF j > Len(s2) THEN cur
    ELSE LET insertions == previous_row[j + 1] + 1
             deletions == cur[j] + 1
             substitutions == previous_row[j] + 1
         IN CurrentRowAlwaysSubstitutes(previous_row, c1, s2,
                       Append(cur, Min2(insertions, Min2(deletions, substitutions))))

RECURSIVE CurrentRow(_, _, _, _)
\* the inner loop of calculate: cur is current_row so far, about to take s2[j]
CurrentRow(previous_row, c1, s2, cur) ==
    LET j == Len(cur) IN
    IF j > Len(s2) THEN cur
    ELSE LET insertions == previous_row[j + 1] + 1
             deletions == cur[j] + 1
             substitutions == previous_row[j] + (IF c1 # s2[j] THEN 1 ELSE 0)
         IN CurrentRow(previous_row, c1, s2,
                       Append(cur, Min2(insertions, Min2(deletions, substitutions))))

RECURSIVE Rows(_, _, _, _)
\* the outer loop of calculate: previous_row before the i-th character of s1
\* (a row is never empty: the second test only makes TLC compute the row
\* before the next turn, instead of nesting the turns)
Rows(s1, s2, i, previous_row) ==
    IF i > Len(s1) \/ previous_row = <<>> THEN previous_row
    ELSE Rows(s1, s2, i + 1, CurrentRow(previous_row, s1[i], s2, <<i>>))

CalculateOrdered(s1, s2) ==
    IF Len(s2) = 0 THEN Len(s1)
    ELSE LET last == Rows(s1, s2, 1, [k \in 1..(Len(s2) + 1) |-> k - 1])
         IN last[Len(last)]

\* EditDistance.calculate
Calculate(s1, s2) ==
    IF Len(s1) < Len(s2) THEN CalculateOrdered(s2, s1) ELSE CalculateOrdered(s1, s2)

\* similarity with len(s1) for max(len(s1), len(s2)): a mutant
SimilarityOverFirst(s1, s2) ==
    IF s1 = <<>> /\ s2 = <<>> THEN <<1, 1>>
    ELSE <<Len(s1) - Calculate(s1, s2), Len(s1)>>

\* EditDistance.similarity, as a fraction <<numerator, denominator>>
Similarity(s1, s2) ==
    IF s1 = <<>> /\ s2 = <<>> THEN <<1, 1>>
    ELSE LET max_len == Max2(Len(s1), Len(s2))
         IN <<max_len - Calculate(s1, s2), max_len>>

\* p > q on fractions with positive denominators
FracGT(p, q) == p[1] * q[2] > q[1] * p[2]
FracLE(p, q) == ~FracGT(p, q)
FracEq(p, q) == p[1] * q[2] = q[1] * p[2]
FracAdd(p, q) == <<p[1] * q[2] + q[1] * p[2], p[2] * q[2]>>

Zero == <<0, 1>>
One == <<1, 1>>
Half == <<1, 2>>
\* the literal 0.6 of normalize_word and FuzzyMatcher(threshold=0.6)
Threshold == <<3, 5>>

-----------------------------------------------------------------------------
(* FuzzyMatcher (fuzzy_matcher.py) *)

RECURSIVE FindBestFromLast(_, _, _, _, _)
\* the scan with "score >= best_score" for "score > best_score": a mutant
FindBestFromLast(word, candidates, i, best_match, best_score) ==
    IF i > Len(candidates) THEN <<best_match, best_score>>
    ELSE LET score == Similarity(word, candidates[i])
         IN IF ~FracGT(best_score, score)
            THEN FindBestFromLast(word, candidates, i + 1, candidates[i], score)
            ELSE FindBestFromLast(word, candidates, i + 1, best_match, best_score)

RECURSIVE FindBestFrom(_, _, _, _, _)
FindBestFrom(word, candidates, i, best_match, best_score) ==
    IF i > Len(candidates) THEN <<best_match, best_score>>
    ELSE LET score == Similarity(word, candidates[i])
         IN IF FracGT(score, best_score)
            THEN FindBestFrom(word, candidates, i + 1, candidates[i], score)
            ELSE FindBestFrom(word, candidates, i + 1, best_match, best_score)

\* FuzzyMatcher.find_best_match: <<best_match, best_score>>
FindBestMatch(word, candidates) == FindBestFrom(word, candidates, 1, <<>>, Zero)

-----------------------------------------------------------------------------
(* Tokenizer (tokenizer.py): word_pattern = \b[\w@#$+!']+\b *)

TokenChars == WordChars \cup {"@", "#", "$", "+", "!", "'"}

IsWordAt(s, k) == k \in DOMAIN s /\ s[k] \in WordChars

\* \b between s[i-1] and s[i], the ends of the string counting as non-word
IsBoundary(s, i) == IsWordAt(s, i - 1) # IsWordAt(s, i)

\* the lengths n >= 1 for which s[i..i+n-1] matches [\w@#$+!']+ and \b follows
MatchLens(s, i) ==
    {n \in 1..(Len(s) - i + 1) :
        /\ \A k \in i..(i + n - 1) : s[k] \in TokenChars
        /\ IsBoundary(s, i + n)}

SetMax(S) == CHOOSE x \in S : \A y \in S : y <= x

RECURSIVE FindAll(_, _)
\* word_pattern.findall: leftmost match, the greedy + backtracking to the
\* longest length that ends at a \b, then on from the end of the match
FindAll(s, i) ==
    IF i > Len(s) THEN <<>>
    ELSE IF IsBoundary(s, i) /\ MatchLens(s, i) # {}
         THEN LET n == SetMax(MatchLens(s, i))
              IN <<SubSeq(s, i, i + n - 1)>> \o FindAll(s, i + n)
         ELSE FindAll(s, i + 1)

\* Tokenizer.tokenize
Tokenize(text) == FindAll(Lower(text), 1)

RECURSIVE JoinUnspaced(_)
\* detokenize with ''.join for ' '.join: a mutant
JoinUnspaced(tokens) ==
    IF tokens = <<>> THEN <<>> ELSE Head(tokens) \o JoinUnspaced(Tail(tokens))

\* Tokenizer.detokenize
Detokenize(tokens) == Join(tokens)

-----------------------------------------------------------------------------
(* Lemmatizer (lemmatizer.py) *)

\* the keys of prefix_rules in dict order: a repeated key of the literal keeps
\* its first place
PrefixRules ==
    << <<"n","a","g">>, <<"n","a","k","a">>, <<"n","a","i">>,
       <<"n","a","p","a">>, <<"n","a","g","i","n","g">>, <<"n","a","k","i">>,
       <<"n","a","n","g">>, <<"n","a">> >>

\* the keys of suffix_rules in dict order
SuffixRules ==
    << <<"i","n","g">>, <<"a","n">>, <<"i","n">>, <<"n","g">>,
       <<"h","a","n">>, <<"h","i","n">>, <<"o","n">>, <<"u","n">> >>

StripPrefix(word) ==
    IF \E i \in DOMAIN PrefixRules : StartsWith(word, PrefixRules[i])
    THEN LET i == CHOOSE i \in DOMAIN PrefixRules :
                    /\ StartsWith(word, PrefixRules[i])
                    /\ \A k \in 1..(i - 1) : ~StartsWith(word, PrefixRules[k])
         IN Slice(word, Len(PrefixRules[i]) + 1, Len(word))
    ELSE word

SuffixApplies(word, suffix) == EndsWith(word, suffix) /\ Len(word) > Len(suffix)

StripSuffix(word) ==
    IF \E i \in DOMAIN SuffixRules : SuffixApplies(word, SuffixRules[i])
    THEN LET i == CHOOSE i \in DOMAIN SuffixRules :
                    /\ SuffixApplies(word, SuffixRules[i])
                    /\ \A k \in 1..(i - 1) : ~SuffixApplies(word, SuffixRules[k])
         IN Slice(word, 1, Len(word) - Len(SuffixRules[i]))
    ELSE word

\* lemmatize without the test of the length of the result: a mutant
LemmatizeUnguarded(word) == StripSuffix(StripPrefix(word))

\* Lemmatizer.lemmatize
Lemmatize(word) ==
    LET stripped == StripSuffix(StripPrefix(word))
    IN IF Len(stripped) < 2 THEN word ELSE stripped

-----------------------------------------------------------------------------
(* The regular expressions of the normalizer.  Each is a concatenation of   *)
(* character classes with repetition counts; an item is <<class, lo, hi>>   *)
(* and hi = -1 stands for "no upper limit".  All of them are used with      *)
(* re.IGNORECASE, so class membership is up to letter case.                 *)

Exactly(cls, n) == <<cls, n, n>>
Between(cls, lo, hi) == <<cls, lo, hi>>
AtLeast(cls, lo) == <<cls, lo, -1>>
Lit(c) == <<{c}, 1, 1>>

InClass(c, cls) == \E x \in cls : LowerChar(x) = LowerChar(c)

RECURSIVE MatchEnds(_, _, _, _)
\* the positions just after a match of items[k..] that starts at pos
MatchEnds(items, k, s, pos) ==
    IF k > Len(items) THEN {pos}
    ELSE LET rem == Len(s) - pos + 1
             top == IF items[k][3] < 0 THEN rem ELSE Min2(items[k][3], rem)
             lens == {n \in items[k][2]..top :
                         \A q \in pos..(pos + n - 1) : InClass(s[q], items[k][1])}
         IN UNION {MatchEnds(items, k + 1, s, pos + n) : n \in lens}

\* re.match('^' + items + '$', s, re.IGNORECASE)
FullMatch(items, s) == (Len(s) + 1) \in MatchEnds(items, 1, s, 1)

\* re.search(pattern, s, re.IGNORECASE), pattern = [start, items, end]:
\* start and end say whether the pattern is anchored with ^ and with $
Search(pattern, s) ==
    \E pos \in 1..(Len(s) + 1) :
        /\ pattern.start => pos = 1
        /\ \E e \in MatchEnds(pattern.items, 1, s, pos) :
               pattern.end => e = Len(s) + 1

DateSep == {"-", "/"}

\* number_patterns of _should_apply_character_replacement, the optional
\* groups written out
NumberPatterns ==
    { <<Exactly(Digits, 4)>>,
      <<Between(Digits, 1, 2), Exactly(DateSep, 1), Between(Digits, 1, 2),
        Exactly(DateSep, 1), Between(Digits, 2, 4)>>,
      <<AtLeast(Digits, 1), Lit("."), AtLeast(Digits, 1)>>,
      <<AtLeast(Digits, 1), Lit(","), AtLeast(Digits, 1)>>,
      <<AtLeast(Digits, 1), Lit("%")>>,
      <<Lit("#"), AtLeast(Digits, 1)>>,
      <<Lit("$"), AtLeast(Digits, 1)>>,
      <<Lit("$"), AtLeast(Digits, 1), Lit("."), Exactly(Digits, 2)>> }
    \cup
    { <<Between(Digits, 1, 2), Lit(":"), Exactly(Digits, 2)>> \o secs \o ampm :
        secs \in {<<>>, <<Lit(":"), Exactly(Digits, 2)>>},
        ampm \in {<<>>, <<Exactly({"a", "p"}, 1), Lit("m")>>} }

\* alphanumeric_patterns of _should_apply_character_replacement
AlphanumericPatterns ==
    { <<AtLeast(UpperChars, 2), AtLeast(Digits, 2)>>,
      <<AtLeast(Digits, 3), AtLeast(UpperChars, 2)>>,
      <<AtLeast(UpperChars \cup Digits, 5), Lit("-"), AtLeast(UpperChars \cup Digits, 3)>>,
      <<AtLeast(UpperChars, 3), AtLeast(Digits, 3), AtLeast(UpperChars, 2)>> }

\* str.isdigit()
IsDigit(word) == word # <<>> /\ \A i \in DOMAIN word : word[i] \in Digits

-----------------------------------------------------------------------------
(* LexiconManager (lexicon_manager.py) *)

\* is_in_words_txt without the lower(): a mutant
IsInWordsTxtCaseSensitive(word) == word \in words_set

\* LexiconManager.is_in_words_txt
IsInWordsTxt(word) == Lower(word) \in words_set

\* LexiconManager.get_normal_word
GetNormalWord(jejemon_word) == DictGet(jejemon_to_normal, Lower(jejemon_word))

\* LexiconManager.get_all_jejemon_words
GetAllJejemonWords == Keys(jejemon_to_normal)

RECURSIVE VariantMapFrom(_, _, _, _)
\* the two loops of _create_variant_to_letter, at variant j of letter i
VariantMapFrom(lv, i, j, variant_map) ==
    IF i > Len(lv) THEN variant_map
    ELSE IF j > Len(lv[i][2]) THEN VariantMapFrom(lv, i + 1, 1, variant_map)
    ELSE VariantMapFrom(lv, i, j + 1,
                        DictSet(variant_map, Lower(lv[i][2][j]), Lower(lv[i][1])))

\* LexiconManager._create_variant_to_letter, of the table lv
CreateVariantToLetter(lv) == VariantMapFrom(lv, 1, 1, <<>>)

IsIn(x, list) == \E i \in DOMAIN list : list[i] = x

SeqMaxLen(list) == IF list = <<>> THEN 0 ELSE SetMax({Len(list[i]) : i \in DOMAIN list})

RECURSIVE ByLenDown(_, _)
ByLenDown(list, n) ==
    IF n < 0 THEN <<>>
    ELSE SelectSeq(list, LAMBDA k : Len(k) = n) \o ByLenDown(list, n - 1)

\* the keys in the order of the index, without sorted(): a mutant
KeysUnsorted(list) == list

\* sorted(list, key=len, reverse=True): stable, so equal lengths keep their order
SortedByLenReverse(list) == ByLenDown(list, SeqMaxLen(list))

\* the turn of the variant loop with re.sub for every variant: a mutant
ApplyVariantAnywhere(result, variant, base) ==
    IF variant = base THEN result ELSE SubIgnoreCase(result, variant, base)

\* one turn of the variant loop of apply_character_replacements
ApplyVariant(result, variant, base) ==
    IF variant = base THEN result
    ELSE IF Len(variant) = 1 THEN SubIgnoreCase(result, variant, base)
    ELSE IF Lower(result) = variant THEN base
    ELSE result

RECURSIVE ApplyVariantsFrom(_, _, _, _)
ApplyVariantsFrom(v2l, order, i, result) ==
    IF i > Len(order) THEN result
    ELSE ApplyVariantsFrom(v2l, order, i + 1,
                           ApplyVariant(result, order[i], DictGet(v2l, order[i])))

RECURSIVE ApplyCommonFrom(_, _, _)
ApplyCommonFrom(cr, i, result) ==
    IF i > Len(cr) THEN result
    ELSE ApplyCommonFrom(cr, i + 1, SubIgnoreCase(result, cr[i][1], cr[i][2]))

\* LexiconManager.apply_character_replacements, reading the index v2l
ApplyWithIndex(v2l, word) ==
    ApplyCommonFrom(common_replacements, 1,
        ApplyVariantsFrom(v2l, SortedByLenReverse(Keys(v2l)), 1, word))

\* LexiconManager.apply_character_replacements
ApplyCharacterReplacements(word) == ApplyWithIndex(variant_to_letter, word)

-----------------------------------------------------------------------------
(* JejemonNormalizer (jejemon_normalizer.py) *)

MeaningfulPunctuation ==
    {"'", "\"", "-", "_", ".", "!", "?", ",", ";", ":", "+",
     "(", ")", "[", "]", "{", "}", "/", "\\", "|", "@", "#", "$", "%"}

\* allowed_inside of _apply_punctuation_evaluation_to_text
AllowedInside == {"+", "@"}

\* JejemonNormalizer._should_apply_character_replacement
ShouldApplyCharacterReplacement(word) ==
    IF IsInWordsTxt(word) THEN FALSE
    ELSE IF Truthy(GetNormalWord(word)) THEN FALSE
    ELSE IF IsDigit(word) /\ Len(word) >= 3 THEN FALSE
    ELSE IF \E pat \in NumberPatterns : FullMatch(pat, word) THEN FALSE
    ELSE IF \E pat \in AlphanumericPatterns : FullMatch(pat, word) THEN FALSE
    ELSE TRUE

\* the fuzzy acceptance with "score >= 0.6" for "score > 0.6": a mutant
FuzzyLookupAtThreshold(w, jejemon_words) ==
    IF jejemon_words = <<>> THEN None
    ELSE LET best == FindBestMatch(w, jejemon_words)
         IN IF ~FracGT(Threshold, best[2])
            THEN (LET matched_normal == GetNormalWord(best[1])
                  IN IF Truthy(matched_normal) THEN matched_normal ELSE None)
            ELSE None

\* the mapping that normalize_word accepts from a fuzzy match of w, or None
FuzzyLookup(w, jejemon_words) ==
    IF jejemon_words = <<>> THEN None
    ELSE LET best == FindBestMatch(w, jejemon_words)
         IN IF FracGT(best[2], Threshold)
            THEN (LET matched_normal == GetNormalWord(best[1])
                  IN IF Truthy(matched_normal) THEN matched_normal ELSE None)
            ELSE None

\* the last step returning the lemma when nothing maps it: a mutant
LemmaStepReturnsLemma(word) ==
    LET lemmatized == Lemmatize(word)
    IN IF lemmatized # word
       THEN IF Truthy(GetNormalWord(lemmatized)) THEN GetNormalWord(lemmatized)
            ELSE IF FuzzyLookup(lemmatized, GetAllJejemonWords) # None
                 THEN FuzzyLookup(lemmatized, GetAllJejemonWords)
                 ELSE lemmatized
       ELSE word

\* normalize_word from "Try lemmatization then fuzzy matching" on
LemmaStep(word) ==
    LET lemmatized == Lemmatize(word)
    IN IF lemmatized # word
       THEN IF Truthy(GetNormalWord(lemmatized)) THEN GetNormalWord(lemmatized)
            ELSE IF FuzzyLookup(lemmatized, GetAllJejemonWords) # None
                 THEN FuzzyLookup(lemmatized, GetAllJejemonWords)
                 ELSE word
       ELSE word

\* normalize_word from "Try fuzzy matching" on
FuzzyStep(word) ==
    IF FuzzyLookup(word, GetAllJejemonWords) # None
    THEN FuzzyLookup(word, GetAllJejemonWords)
    ELSE LemmaStep(word)

\* the replacement step returning the rewritten word when nothing maps it:
\* a mutant
ReplacementStepReturnsModified(word) ==
    LET modified_word == ApplyCharacterReplacements(word)
    IN IF ShouldApplyCharacterReplacement(word) /\ modified_word # word
       THEN IF Truthy(GetNormalWord(modified_word)) THEN GetNormalWord(modified_word)
            ELSE modified_word
       ELSE FuzzyStep(word)

\* normalize_word from "Apply character replacements only if appropriate" on
ReplacementStep(word) ==
    LET modified_word == ApplyCharacterReplacements(word)
    IN IF /\ ShouldApplyCharacterReplacement(word)
          /\ modified_word # word
          /\ Truthy(GetNormalWord(modified_word))
       THEN GetNormalWord(modified_word)
       ELSE FuzzyStep(word)

\* JejemonNormalizer.normalize_word
NormalizeWord(word) ==
    IF IsInWordsTxt(word) THEN word
    ELSE IF Truthy(GetNormalWord(word)) THEN GetNormalWord(word)
    ELSE ReplacementStep(word)

RECURSIVE LastMatchingRule(_, _, _)
\* the rule loop without its break, the last matching rule winning: a mutant
LastMatchingRule(context_rules, i, result) ==
    IF i > Len(context_rules) THEN 0
    ELSE LET later == LastMatchingRule(context_rules, i + 1, result)
         IN IF later > 0 THEN later
            ELSE IF Search(context_rules[i].pattern, result) THEN i ELSE 0

RECURSIVE FirstMatchingRule(_, _, _)
\* the index of the first rule of context_rules whose pattern is found in
\* result, 0 when there is none
FirstMatchingRule(context_rules, i, result) ==
    IF i > Len(context_rules) THEN 0
    ELSE IF Search(context_rules[i].pattern, result) THEN i
    ELSE FirstMatchingRule(context_rules, i + 1, result)

\* one turn of "for char, rules in self.context_replacements.items()"
ApplyContextChar(result, char, rules) ==
    IF Contains(result, char)
    THEN LET i == FirstMatchingRule(rules.context_rules, 1, result)
         IN IF i > 0
            THEN StrReplace(result, char, rules.context_rules[i].replacement)
            ELSE StrReplace(result, char, rules.default)
    ELSE result

RECURSIVE ApplyContextFrom(_, _)
ApplyContextFrom(i, result) ==
    IF i > Len(context_replacements) THEN result
    ELSE ApplyContextFrom(i + 1,
             ApplyContextChar(result, context_replacements[i][1],
                              context_replacements[i][2]))

\* JejemonNormalizer._apply_context_aware_replacements, which is also the
\* body of the word loop of _apply_character_replacements_to_text
ApplyContextAwareReplacements(word) ==
    IF ~ShouldApplyCharacterReplacement(word) THEN word
    ELSE ApplyCharacterReplacements(ApplyContextFrom(1, word))

\* the grave accent, a character that a TLA+ string cannot hold
Backtick == "<backtick>"

\* meaningful_patterns of _apply_punctuation_evaluation_to_text
TextMeaningfulPatterns ==
    << << <<"'","s">>, <<"s">> >>, << <<"'","t">>, <<"t">> >>,
       << <<"'","r","e">>, <<"r","e">> >>, << <<"'","v","e">>, <<"v","e">> >>,
       << <<"'","l","l">>, <<"l","l">> >>, << <<"'","d">>, <<"d">> >>,
       << <<"'","m">>, <<"m">> >>, << <<"'">>, <<>> >>, << <<Backtick>>, <<>> >> >>

RECURSIVE ReplacePatternsFrom(_, _, _)
ReplacePatternsFrom(patterns, i, text) ==
    IF i > Len(patterns) THEN text
    ELSE ReplacePatternsFrom(patterns, i + 1,
             IF Contains(text, patterns[i][1])
             THEN StrReplace(text, patterns[i][1], patterns[i][2])
             ELSE text)

\* meaningful_patterns of _evaluate_punctuation_value
WordMeaningfulPatterns ==
    << << <<"'","s">>, <<"s">> >>, << <<"'","t">>, <<"t">> >>,
       << <<"'","r","e">>, <<"r","e">> >>, << <<"'","v","e">>, <<"v","e">> >>,
       << <<"'","l","l">>, <<"l","l">> >>, << <<"'","d">>, <<"d">> >>,
       << <<"'","m">>, <<"m">> >>, << <<"'","r","e">>, <<"r","e">> >>,
       << <<"'">>, <<>> >>, << <<Backtick>>, <<>> >>, << <<"'">>, <<>> >> >>

\* JejemonNormalizer._evaluate_punctuation_value: <<word, flag>>
EvaluatePunctuationValue(word) ==
    IF ~\E i \in DOMAIN word : word[i] \in MeaningfulPunctuation
    THEN <<word, FALSE>>
    ELSE LET modified_word == ReplacePatternsFrom(WordMeaningfulPatterns, 1, word)
             original_mapped == GetNormalWord(word)
             modified_mapped == GetNormalWord(modified_word)
         IN IF Truthy(original_mapped) /\ ~Truthy(modified_mapped)
            THEN <<original_mapped, FALSE>>
            ELSE IF Truthy(modified_mapped) /\ ~Truthy(original_mapped)
            THEN <<modified_mapped, TRUE>>
            ELSE IF Truthy(original_mapped) /\ Truthy(modified_mapped)
            THEN <<modified_mapped, TRUE>>
            ELSE <<word, FALSE>>

StripSet == MeaningfulPunctuation \ AllowedInside

RECURSIVE LStrip(_, _)
\* word without its leading characters of the set chars
LStrip(word, chars) ==
    IF word # <<>> /\ Head(word) \in chars THEN LStrip(Tail(word), chars) ELSE word

RECURSIVE RStrip(_, _)
\* word without its trailing characters of the set chars
RStrip(word, chars) ==
    IF word # <<>> /\ word[Len(word)] \in chars
    THEN RStrip(SubSeq(word, 1, Len(word) - 1), chars)
    ELSE word

\* the two re.sub of the word loop: '^[StripSet]+' and '[StripSet]+$'
StripPunctuation(word) == RStrip(LStrip(word, StripSet), StripSet)

\* the word loop without the exemption of the mapped words: a mutant
CleanWordWithoutExemption(word) == StripPunctuation(word)

\* the body of the word loop of _apply_punctuation_evaluation_to_text
CleanWord(word) ==
    IF Truthy(GetNormalWord(word)) THEN word ELSE StripPunctuation(word)

MapSeq(F(_), list) == [i \in DOMAIN list |-> F(list[i])]

\* JejemonNormalizer._apply_punctuation_evaluation_to_text
ApplyPunctuationEvaluationToText(text) ==
    Join(MapSeq(CleanWord, Split(ReplacePatternsFrom(TextMeaningfulPatterns, 1, text))))

\* JejemonNormalizer._apply_character_replacements_to_text
ApplyCharacterReplacementsToText(text) ==
    Join(MapSeq(ApplyContextAwareReplacements, Split(text)))

RECURSIVE NormalizeTokensReversed(_, _, _)
\* the token loop with insert(0, ...) for append(...): a mutant
NormalizeTokensReversed(tokens, i, normalized_tokens) ==
    IF i > Len(tokens) THEN normalized_tokens
    ELSE NormalizeTokensReversed(tokens, i + 1,
                                 <<NormalizeWord(tokens[i])>> \o normalized_tokens)

RECURSIVE NormalizeTokensFrom(_, _, _)
\* the token loop of normalize_text
NormalizeTokensFrom(tokens, i, normalized_tokens) ==
    IF i > Len(tokens) THEN normalized_tokens
    ELSE NormalizeTokensFrom(tokens, i + 1,
                             Append(normalized_tokens, NormalizeWord(tokens[i])))

\* JejemonNormalizer.normalize_text
NormalizeText(text) ==
    LET punctuation_evaluated_text == ApplyPunctuationEvaluationToText(text)
        character_replaced_text ==
            ApplyCharacterReplacementsToText(punctuation_evaluated_text)
        tokens == Tokenize(character_replaced_text)
    IN [original |-> text,
        punctuation_evaluated |-> punctuation_evaluated_text,
        character_replaced |-> character_replaced_text,
        tokenized |-> Join(tokens),
        normalized |-> Detokenize(NormalizeTokensFrom(tokens, 1, <<>>))]

RECURSIVE TotalConfidence(_, _, _)
\* the loop of get_normalization_confidence over the zipped tokens
TotalConfidence(original_tokens, normalized_tokens, i) ==
    IF i > Len(original_tokens) THEN Zero
    ELSE FracAdd(IF original_tokens[i] = normalized_tokens[i] THEN One
                 ELSE Similarity(original_tokens[i], normalized_tokens[i]),
                 TotalConfidence(original_tokens, normalized_tokens, i + 1))

\* get_normalization_confidence without the token count test, zip cutting
\* the longer list: a mutant
ConfidenceWithoutCountTest(original, normalized) ==
    LET original_tokens == Tokenize(original)
        normalized_tokens == Tokenize(normalized)
        n == Min2(Len(original_tokens), Len(normalized_tokens))
        total == TotalConfidence(SubSeq(original_tokens, 1, n),
                                 SubSeq(normalized_tokens, 1, n), 1)
    IN IF original = normalized THEN Zero
       ELSE IF original_tokens = <<>> THEN Zero
       ELSE <<total[1], total[2] * Len(original_tokens)>>

\* JejemonNormalizer.get_normalization_confidence, as a fraction
GetNormalizationConfidence(original, normalized) ==
    LET original_tokens == Tokenize(original)
        normalized_tokens == Tokenize(normalized)
        total == TotalConfidence(original_tokens, normalized_tokens, 1)
    IN IF original = normalized THEN Zero
       ELSE IF Len(original_tokens) # Len(normalized_tokens) THEN Half
       ELSE IF original_tokens = <<>> THEN Zero
       ELSE <<total[1], total[2] * Len(original_tokens)>>

-----------------------------------------------------------------------------
(* Mutation: add_variant and save_characters *)

\* add_variant without the two lower(): a mutant
AddVariantCaseSensitive(lv, v2l, letter, variant) ==
    LET lv1 == IF ~HasKey(lv, letter) THEN Append(lv, <<letter, <<>> >>) ELSE lv
    IN IF ~IsIn(variant, DictGet(lv1, letter))
       THEN <<DictSet(lv1, letter, Append(DictGet(lv1, letter), variant)),
              DictSet(v2l, variant, letter)>>
       ELSE <<lv1, v2l>>

\* LexiconManager.add_variant on the table lv and the index v2l:
\* <<letter_variants, variant_to_letter>> after the call
AddVariant(lv, v2l, letter_in, variant_in) ==
    LET letter == Lower(letter_in)
        variant == Lower(variant_in)
        lv1 == IF ~HasKey(lv, letter) THEN Append(lv, <<letter, <<>> >>) ELSE lv
    IN IF ~IsIn(variant, DictGet(lv1, letter))
       THEN <<DictSet(lv1, letter, Append(DictGet(lv1, letter), variant)),
              DictSet(v2l, variant, letter)>>
       ELSE <<lv1, v2l>>

\* what open(..., 'w') and json.dump of save_characters can do to the file:
\* "saved", "open_failed" (the file is left as it was) or "write_failed"
\* (the file was truncated by open and holds no complete JSON document)
SaveOutcomes == {"saved", "open_failed", "write_failed"}

\* save_characters that writes nothing: a mutant
SaveCharactersSkipped(file, lv, outcome) == file

\* the characters file after LexiconManager.save_characters
SaveCharacters(file, lv, outcome) ==
    CASE outcome = "saved" -> [st |-> "ok", data |-> [letter_variants |-> lv]]
      [] outcome = "open_failed" -> file
      [] outcome = "write_failed" -> [st |-> "invalid", data |-> <<>>]

-----------------------------------------------------------------------------
(* Construction: the loaders of LexiconManager and JejemonNormalizer.  A    *)
(* file is [st, data]: st is "missing", "unreadable" (open raises an        *)
(* OSError that is not FileNotFoundError), "invalid" (json.load raises      *)
(* JSONDecodeError), "wrong_shape" (valid JSON that is no object) or "ok".  *)

EmptyLexicon == [jejemon_to_normal |-> <<>>, common_replacements |-> <<>>]
EmptyCharacters == [letter_variants |-> <<>>]
EmptyContext == [context_aware_rules |-> <<>>]

\* load_lexicon, load_characters and the json.load of _load_context_rules:
\* the exception that escapes ("" when none) and the value returned
LoadJson(file, empty) ==
    CASE file.st = "missing" -> [exc |-> "", dict |-> TRUE, value |-> empty]
      [] file.st = "invalid" -> [exc |-> "", dict |-> TRUE, value |-> empty]
      [] file.st = "unreadable" -> [exc |-> "PermissionError", dict |-> TRUE, value |-> empty]
      [] file.st = "wrong_shape" -> [exc |-> "", dict |-> FALSE, value |-> empty]
      [] file.st = "ok" -> [exc |-> "", dict |-> TRUE, value |-> file.data]

\* the .get(...) that follows a load: AttributeError on a value that is no dict
GetOn(loaded) ==
    IF loaded.exc # "" THEN loaded.exc
    ELSE IF ~loaded.dict THEN "AttributeError"
    ELSE ""

\* str.strip()
Strip(line) == RStrip(LStrip(line, Whitespace), Whitespace)

\* load_words_txt: the exception that escapes and the set returned
LoadWordsTxt(file) ==
    CASE file.st = "missing" -> [exc |-> "", value |-> {}]
      [] file.st = "unreadable" -> [exc |-> "PermissionError", value |-> {}]
      [] file.st = "ok" ->
           [exc |-> "",
            value |-> {Lower(Strip(file.data[i])) : i \in DOMAIN file.data}
                          \ {<<>>}]

\* the first exception raised by JejemonNormalizer.__init__, "" when none:
\* load_lexicon, load_characters, characters.get, lexicon.get,
\* load_words_txt, _load_context_rules, in the order of the code
ConstructionError(f) ==
    LET lex == LoadJson(f.lexicon, EmptyLexicon)
        chr == LoadJson(f.characters, EmptyCharacters)
        wrd == LoadWordsTxt(f.words)
        ctx == LoadJson(f.context, EmptyContext)
    IN IF lex.exc # "" THEN lex.exc
       ELSE IF GetOn(chr) # "" THEN GetOn(chr)
       ELSE IF GetOn(lex) # "" THEN GetOn(lex)
       ELSE IF wrd.exc # "" THEN wrd.exc
       ELSE GetOn(ctx)

-----------------------------------------------------------------------------
(* The strings of the resources and of the calls *)

W_juz == <<"j","u","z">>
W_JuZ == <<"J","u","Z">>
W_JUZ == <<"J","U","Z">>
W_just == <<"j","u","s","t">>
W_me == <<"m","e">>
W_m3 == <<"m","3">>
W_M3 == <<"M","3">>
W_ako == <<"a","k","o">>
W_wru == <<"w","r","u">>
W_where_are_you == <<"w","h","e","r","e"," ","a","r","e"," ","y","o","u">>
W_hello == <<"h","e","l","l","o">>
W_hi == <<"h","i">>
W_hexxo == <<"h","e","x","x","o">>
W_juzt == <<"j","u","z","t">>
W_JuZz == <<"J","u","Z","z">>
W_nagme == <<"n","a","g","m","e">>
W_nagjuzt == <<"n","a","g","j","u","z","t">>
W_h3llo == <<"h","3","l","l","o">>
W_vv == <<"v","v">>
W_2 == <<"2">>
W_to == <<"t","o">>
W_0 == <<"0">>
W_o == <<"o">>
W_e == <<"e">>
W_E == <<"E">>
W_a == <<"a">>
W_w == <<"w">>
W_3 == <<"3">>
W_4 == <<"4">>
W_x == <<"x">>
W_v == <<"v">>
W_for == <<"f","o","r">>
W_X == <<"X">>
W_u == <<"u">>
W_j0 == <<"j","0">>
W_123 == <<"1","2","3">>
W_ab12 == <<"a","b","1","2">>
W_m3n == <<"m","3","n">>

-----------------------------------------------------------------------------
(* The resources on disk *)

OkFile(data) == [st |-> "ok", data |-> data]
BadFile(st) == [st |-> st, data |-> <<>>]

\* dictionary.json: lower-case keys, a multi-word normal form
LexiconPlain ==
    [jejemon_to_normal |-> << <<W_juz, W_just>>, <<W_me, W_ako>>,
                              <<W_wru, W_where_are_you>>, <<W_hello, W_hi>> >>,
     common_replacements |-> << <<W_2, W_to>> >>]

\* dictionary.json: a key that is not lower-case, as json.load returns it
LexiconMixedCase ==
    [jejemon_to_normal |-> << <<W_JuZ, W_just>>, <<W_me, W_ako>> >>,
     common_replacements |-> <<>>]

LexiconContents == {EmptyLexicon, LexiconPlain, LexiconMixedCase}

\* characters.json
CharactersPlain == [letter_variants |-> << <<W_e, <<W_3>> >>, <<W_w, <<W_vv>> >> >>]

CharactersContents == {EmptyCharacters, CharactersPlain}

\* the pattern 0 followed by a letter, and the pattern ^0
ZeroBeforeLetter == [start |-> FALSE, items |-> <<Lit("0"), Exactly(LowerChars, 1)>>, end |-> FALSE]

\* context_rules.json
ContextPlain ==
    [context_aware_rules |->
        << <<W_0, [context_rules |-> << [pattern |-> ZeroBeforeLetter, replacement |-> W_o] >>,
                   default |-> W_o]>> >>]

ContextContents == {EmptyContext, ContextPlain}

\* words.txt, line by line
WordsPlain == << W_JuZ, W_m3 \o <<" ">>, <<>> >>

WordsContents == {<<>>, WordsPlain}

\* the resources when every one of them is present and well-formed
GoodFiles ==
    {[lexicon |-> OkFile(l), characters |-> OkFile(c), context |-> OkFile(x), words |-> OkFile(w)] :
        l \in LexiconContents, c \in CharactersContents,
        x \in ContextContents, w \in WordsContents}

\* the resources when every one of them is missing or is no JSON document:
\* every loader reports it and returns an empty value
DegradedFiles ==
    {[lexicon |-> BadFile("invalid"), characters |-> BadFile("missing"),
      context |-> BadFile("invalid"), words |-> BadFile("missing")]}

\* dictionary.json: a key whose normal form is the empty string
LexiconEmptyValue ==
    [jejemon_to_normal |-> << <<W_juz, <<>> >>, <<W_me, W_ako>> >>,
     common_replacements |-> <<>>]

\* the resources with a dictionary.json that holds an empty normal form
EmptyValueFiles ==
    {[lexicon |-> OkFile(LexiconEmptyValue), characters |-> OkFile(CharactersPlain),
      context |-> OkFile(ContextPlain), words |-> OkFile(<<>>)]}

JsonFailures == {"missing", "unreadable", "invalid", "wrong_shape"}
TextFailures == {"missing", "unreadable"}

\* the resources in every state the disk can be in
AnyFiles ==
    {[lexicon |-> l, characters |-> c, context |-> x, words |-> w] :
        l \in {OkFile(d) : d \in LexiconContents} \cup {BadFile(st) : st \in JsonFailures},
        c \in {OkFile(d) : d \in CharactersContents} \cup {BadFile(st) : st \in JsonFailures},
        x \in {OkFile(d) : d \in ContextContents} \cup {BadFile(st) : st \in JsonFailures},
        w \in {OkFile(d) : d \in WordsContents} \cup {BadFile(st) : st \in TextFailures}}

\* the tables that __init__ builds from the resources f, when it raises nothing
LoadedTables(f) ==
    LET lexicon == LoadJson(f.lexicon, EmptyLexicon).value
        characters == LoadJson(f.characters, EmptyCharacters).value
    IN [words_set |-> LoadWordsTxt(f.words).value,
        jejemon_to_normal |-> lexicon.jejemon_to_normal,
        common_replacements |-> lexicon.common_replacements,
        letter_variants |-> characters.letter_variants,
        variant_to_letter |-> CreateVariantToLetter(characters.letter_variants),
        context_replacements |-> LoadJson(f.context, EmptyContext).value.context_aware_rules]

NoTables ==
    [words_set |-> {}, jejemon_to_normal |-> <<>>, common_replacements |-> <<>>,
     letter_variants |-> <<>>, variant_to_letter |-> <<>>, context_replacements |-> <<>>]

NoCall == [op |-> "", arg |-> <<>>, ret |-> <<>>, letter_variants |-> <<>>,
           variant_to_letter |-> <<>>]

\* the object's tables are t
TablesAre(t) ==
    /\ words_set = t.words_set
    /\ jejemon_to_normal = t.jejemon_to_normal
    /\ common_replacements = t.common_replacements
    /\ letter_variants = t.letter_variants
    /\ variant_to_letter = t.variant_to_letter
    /\ context_replacements = t.context_replacements

-----------------------------------------------------------------------------
(* The arguments of the calls *)

\* the longest generated word
MaxWordLen == 2
\* the largest number of pieces in a generated text
MaxPieces == 3
\* the largest number of variants in the table after an add_variant call
MaxVariants == 3
\* the largest number of calls on a normalizer whose calls change its tables
MaxCalls == 2

\* the longest generated argument of calculate and similarity
MaxEditLen == 3
\* the largest number of candidates given to find_best_match
MaxCandidates == 2
\* the longest generated argument of lemmatize
MaxLemmaLen == 5

StringsUpTo(alphabet, n) == UNION {[1..k -> alphabet] : k \in 0..n}

RECURSIVE Concat(_)
Concat(pieces) == IF pieces = <<>> THEN <<>> ELSE Head(pieces) \o Concat(Tail(pieces))

WordAlphabet == {"j", "u", "Z", "m", "3"}

SampleWords ==
    {W_juz, W_JuZ, W_JUZ, W_me, W_m3, W_M3, W_wru, W_hello, W_hexxo, W_juzt,
     W_JuZz, W_nagme, W_nagjuzt, W_h3llo, W_vv, W_123, W_ab12, W_j0, W_m3n, W_2}

WordInputs == SampleWords \cup StringsUpTo(WordAlphabet, MaxWordLen)

TextPieces == {W_wru, W_JuZ, W_m3, <<" ">>, <<"!">>}

SampleTexts ==
    {W_wru \o <<" ">> \o W_JUZ \o <<"!">>,
     W_j0 \o <<"'", "s", " ">> \o W_nagme \o <<" ", " ", "@">> \o W_me,
     <<"(">> \o W_juz \o <<")", " ">> \o W_2 \o W_u \o <<" ", "'">> \o W_juzt \o <<".">>}

TextInputs == SampleTexts \cup {Concat(p) : p \in StringsUpTo(TextPieces, MaxPieces)}

ConfidenceTexts ==
    {<<>>, <<"a", "b", "c">>, <<"a", " ", "b">>, <<"!">>, <<"?">>,
     W_juz \o <<" ">> \o W_me, W_just \o <<" ">> \o W_me, W_just \o <<" ">> \o W_ako,
     W_wru, W_where_are_you, W_JuZ \o <<" ">> \o W_me}

-----------------------------------------------------------------------------
(* The calls on a constructed normalizer.  These three calls read the     *)
(* tables and change nothing, so every call is made on the normalizer as    *)
(* constructed: a behaviour is one construction and one call.               *)

\* normalizer.normalize_word(word)
NormalizeWordCall ==
    \E word \in WordInputs :
        /\ phase = "ready"
        /\ op = ""
        /\ op' = "normalize_word"
        /\ arg' = <<word>>
        /\ ret' = NormalizeWord(word)
        /\ calls' = calls + 1
        /\ UNCHANGED threads
        /\ UNCHANGED <<files, phase, tables, prev>>

\* normalizer.normalize_text(text)
NormalizeTextCall ==
    \E text \in TextInputs :
        /\ phase = "ready"
        /\ op = ""
        /\ op' = "normalize_text"
        /\ arg' = <<text>>
        /\ ret' = NormalizeText(text)
        /\ calls' = calls + 1
        /\ UNCHANGED threads
        /\ UNCHANGED <<files, phase, tables, prev>>

\* normalizer.get_normalization_confidence(original, normalized)
ConfidenceCall ==
    \E original \in ConfidenceTexts, normalized \in ConfidenceTexts :
        /\ phase = "ready"
        /\ op = ""
        /\ op' = "confidence"
        /\ arg' = <<original, normalized>>
        /\ ret' = GetNormalizationConfidence(original, normalized)
        /\ calls' = calls + 1
        /\ UNCHANGED threads
        /\ UNCHANGED <<files, phase, tables, prev>>

\* a normalizer constructed from resources that are all present and
\* well-formed, or that all failed to load
Init ==
    /\ files \in GoodFiles \cup DegradedFiles \cup EmptyValueFiles
    /\ phase = "ready"
    /\ TablesAre(LoadedTables(files))
    /\ op = "" /\ arg = <<>> /\ ret = <<>>
    /\ prev = NoCall
    /\ calls = 0
    /\ threads = NoThreads

Next == NormalizeWordCall \/ NormalizeTextCall \/ ConfidenceCall

Spec == Init /\ [][Next]_vars

-----------------------------------------------------------------------------
(* add_variant on a constructed normalizer, and the replacements after it *)

\* characters.json: a variant of e under a letter that comes after another
CharactersTwoLetters ==
    [letter_variants |-> << <<W_a, <<W_4>> >>, <<W_e, <<W_3>> >> >>]

\* characters.json: a letter key that is not lower-case
CharactersUpperLetter == [letter_variants |-> << <<W_E, <<W_3>> >> >>]

\* characters.json: a variant that is not lower-case
CharactersUpperVariant == [letter_variants |-> << <<W_e, <<W_X>> >> >>]

VariantCharacters ==
    {OkFile(c) : c \in {EmptyCharacters, CharactersPlain, CharactersTwoLetters,
                        CharactersUpperLetter, CharactersUpperVariant}}
        \cup {BadFile("missing")}

\* characters.json: the variant v of u, listed first, inside the variant vv of w
CharactersNested == [letter_variants |-> << <<W_u, <<W_v>> >>, <<W_w, <<W_vv>> >> >>]

\* dictionary.json: the digit 4 stands for a word, and is a variant of a in
\* CharactersTwoLetters
LexiconDigits ==
    [jejemon_to_normal |-> << <<W_juz, W_just>> >>,
     common_replacements |-> << <<W_2, W_to>>, <<W_4, W_for>> >>]

VariantFiles ==
    {[lexicon |-> OkFile(LexiconPlain), characters |-> c,
      context |-> OkFile(EmptyContext), words |-> OkFile(<<>>)] :
        c \in VariantCharacters \cup {OkFile(CharactersNested)}}
    \cup {[lexicon |-> OkFile(LexiconDigits), characters |-> OkFile(CharactersTwoLetters),
           context |-> OkFile(EmptyContext), words |-> OkFile(<<>>)]}

VariantLetters == {W_a, W_e, W_E}
VariantStrings == {W_3, W_x, W_X, W_e}
W_Vv == <<"V","v">>
W_vv3 == <<"v","v","3">>
ApplyWords == {W_m3 \o W_x, W_X \o W_3 \o W_2, W_h3llo, W_Vv, W_vv3, W_vv, W_4}

RECURSIVE VariantCount(_)
\* the number of variants listed in the table lv
VariantCount(lv) ==
    IF lv = <<>> THEN 0 ELSE Len(Head(lv)[2]) + VariantCount(Tail(lv))

\* the call that is now the last one, and the tables it was made on
History ==
    [op |-> op, arg |-> arg, ret |-> ret, letter_variants |-> letter_variants,
     variant_to_letter |-> variant_to_letter]

\* normalizer.add_variant(letter, variant): LexiconManager.add_variant, then
\* LexiconManager.save_characters, whose write ends in one of SaveOutcomes
AddVariantCall ==
    \E letter \in VariantLetters, variant \in VariantStrings, outcome \in SaveOutcomes :
        LET after == AddVariant(letter_variants, variant_to_letter, letter, variant)
        IN /\ phase = "ready"
           /\ calls < MaxCalls
           /\ VariantCount(after[1]) <= MaxVariants
           /\ letter_variants' = after[1]
           /\ variant_to_letter' = after[2]
           /\ files' = [files EXCEPT !.characters = SaveCharacters(@, after[1], outcome)]
           /\ op' = "add_variant"
           /\ arg' = <<letter, variant, outcome>>
           /\ ret' = None
           /\ prev' = History
           /\ calls' = calls + 1
           /\ UNCHANGED threads
           /\ UNCHANGED <<phase, words_set, jejemon_to_normal, common_replacements,
                          context_replacements>>

\* lexicon_manager.apply_character_replacements(word)
ApplyCall ==
    \E word \in ApplyWords :
        /\ phase = "ready"
        /\ calls < MaxCalls
        /\ op' = "apply_character_replacements"
        /\ arg' = <<word>>
        /\ ret' = ApplyCharacterReplacements(word)
        /\ prev' = History
        /\ calls' = calls + 1
        /\ UNCHANGED threads
        /\ UNCHANGED <<files, phase, tables>>

\* a normalizer constructed from a characters.json of VariantCharacters
InitVariant ==
    /\ files \in VariantFiles
    /\ phase = "ready"
    /\ TablesAre(LoadedTables(files))
    /\ op = "" /\ arg = <<>> /\ ret = <<>>
    /\ prev = NoCall
    /\ calls = 0
    /\ threads = NoThreads

NextVariant == AddVariantCall \/ ApplyCall

SpecVariant == InitVariant /\ [][NextVariant]_vars

-----------------------------------------------------------------------------
(* JejemonNormalizer() on the resources as they are on disk *)

\* __init__ returns: every loader returned and every .get was on a dict
ConstructReturns ==
    /\ phase = "new"
    /\ ConstructionError(files) = ""
    /\ phase' = "ready"
    /\ words_set' = LoadedTables(files).words_set
    /\ jejemon_to_normal' = LoadedTables(files).jejemon_to_normal
    /\ common_replacements' = LoadedTables(files).common_replacements
    /\ letter_variants' = LoadedTables(files).letter_variants
    /\ variant_to_letter' = LoadedTables(files).variant_to_letter
    /\ context_replacements' = LoadedTables(files).context_replacements
    /\ op' = "__init__"
    /\ ret' = None
    /\ UNCHANGED <<files, arg, prev, calls, threads>>

\* __init__ raises: the exception leaves the constructor, there is no object
ConstructRaises ==
    /\ phase = "new"
    /\ ConstructionError(files) # ""
    /\ phase' = "failed"
    /\ op' = "__init__"
    /\ ret' = <<ConstructionError(files)>>
    /\ UNCHANGED <<files, tables, arg, prev, calls, threads>>

\* the resources in any state, and no normalizer yet
InitLoad ==
    /\ files \in AnyFiles
    /\ phase = "new"
    /\ TablesAre(NoTables)
    /\ op = "" /\ arg = <<>> /\ ret = <<>>
    /\ prev = NoCall
    /\ calls = 0
    /\ threads = NoThreads

NextLoad == ConstructReturns \/ ConstructRaises

SpecLoad == InitLoad /\ [][NextLoad]_vars

-----------------------------------------------------------------------------
(* The helpers that read no table: EditDistance, FuzzyMatcher, Lemmatizer *)

W_helo == <<"h","e","l","o">>
W_world == <<"w","o","r","l","d">>
W_naging == <<"n","a","g","i","n","g">>
W_kainan == <<"k","a","i","n","a","n">>
W_nakain == <<"n","a","k","a","i","n">>
W_nagkainan == <<"n","a","g","k","a","i","n","a","n">>
W_ab == <<"a","b">>
W_ba == <<"b","a">>

EditStrings == StringsUpTo({"a", "b"}, MaxEditLen) \cup {W_helo, W_hello}

CandidatePool == {<<>>, W_a, W_ab, W_ba, W_hello, W_world}

CandidateLists == StringsUpTo(CandidatePool, MaxCandidates)

LemmaWords ==
    StringsUpTo({"n", "a", "g", "i"}, MaxLemmaLen)
        \cup {W_naging, W_kainan, W_nakain, W_nagkainan, W_nagme, W_nagjuzt, W_juz}

\* EditDistance.calculate(s1, s2)
CalculateCall ==
    \E s1 \in EditStrings, s2 \in EditStrings :
        /\ phase = "ready"
        /\ op = ""
        /\ op' = "calculate"
        /\ arg' = <<s1, s2>>
        /\ ret' = Calculate(s1, s2)
        /\ calls' = calls + 1
        /\ UNCHANGED threads
        /\ UNCHANGED <<files, phase, tables, prev>>

\* EditDistance.similarity(s1, s2)
SimilarityCall ==
    \E s1 \in EditStrings, s2 \in EditStrings :
        /\ phase = "ready"
        /\ op = ""
        /\ op' = "similarity"
        /\ arg' = <<s1, s2>>
        /\ ret' = Similarity(s1, s2)
        /\ calls' = calls + 1
        /\ UNCHANGED threads
        /\ UNCHANGED <<files, phase, tables, prev>>

\* fuzzy_matcher.find_best_match(word, candidates)
FindBestMatchCall ==
    \E word \in EditStrings, candidates \in CandidateLists :
        /\ phase = "ready"
        /\ op = ""
        /\ op' = "find_best_match"
        /\ arg' = <<word, candidates>>
        /\ ret' = FindBestMatch(word, candidates)
        /\ calls' = calls + 1
        /\ UNCHANGED threads
        /\ UNCHANGED <<files, phase, tables, prev>>

\* lemmatizer.lemmatize(word)
LemmatizeCall ==
    \E word \in LemmaWords :
        /\ phase = "ready"
        /\ op = ""
        /\ op' = "lemmatize"
        /\ arg' = <<word>>
        /\ ret' = Lemmatize(word)
        /\ calls' = calls + 1
        /\ UNCHANGED threads
        /\ UNCHANGED <<files, phase, tables, prev>>

\* a normalizer and its helpers; the helpers read none of its tables
InitPure ==
    /\ files = [lexicon |-> OkFile(LexiconPlain), characters |-> OkFile(CharactersPlain),
                context |-> OkFile(ContextPlain), words |-> OkFile(WordsPlain)]
    /\ phase = "ready"
    /\ TablesAre(LoadedTables(files))
    /\ op = "" /\ arg = <<>> /\ ret = <<>>
    /\ prev = NoCall
    /\ calls = 0
    /\ threads = NoThreads

NextPure == CalculateCall \/ SimilarityCall \/ FindBestMatchCall \/ LemmatizeCall

SpecPure == InitPure /\ [][NextPure]_vars

-----------------------------------------------------------------------------
(* The steps of the normalizer that read its tables, called on their own *)

W_mes == <<"m","e","s">>
W_me_s == <<"m","e","'","s">>
W_d_n == <<"d","'","n">>
W_juzbang == <<"j","u","z","!">>
W_mine == <<"m","i","n","e">>
W_12ab == <<"1","2","a","b">>
W_123ab == <<"1","2","3","a","b">>
W_a1 == <<"a","1">>
W_1 == <<"1">>
W_l == <<"l">>
W_i == <<"i">>
W_01 == <<"0","1">>
W_0a1 == <<"0","a","1">>
W_1o1 == <<"1","o","1">>

\* dictionary.json: keys with an apostrophe and with a trailing "!"
LexiconPunctuated ==
    [jejemon_to_normal |-> << <<W_juz, W_just>>, <<W_mes, W_ako>>, <<W_me_s, W_mine>>,
                              <<W_d_n, W_hi>>, <<W_juzbang, W_just>> >>,
     common_replacements |-> <<>>]

\* the patterns ^0 and o1
ZeroAtStart == [start |-> TRUE, items |-> <<Lit("0")>>, end |-> FALSE]
OneAfterO == [start |-> FALSE, items |-> <<Lit("o"), Lit("1")>>, end |-> FALSE]
OneAtStart == [start |-> TRUE, items |-> <<Lit("1")>>, end |-> FALSE]

\* context_rules.json: two characters, the rules of the second one reading
\* what the first one wrote, and defaults that are not the replacements
ContextOrdered ==
    [context_aware_rules |->
        << <<W_0, [context_rules |-> << [pattern |-> ZeroAtStart, replacement |-> W_o] >>,
                   default |-> <<>>]>>,
           <<W_1, [context_rules |-> << [pattern |-> OneAfterO, replacement |-> W_l],
                                        [pattern |-> OneAtStart, replacement |-> W_i] >>,
                   default |-> <<"!">>]>> >>]

StepFiles ==
    {[lexicon |-> OkFile(l), characters |-> OkFile(c), context |-> OkFile(x), words |-> OkFile(w)] :
        l \in {EmptyLexicon, LexiconPlain, LexiconPunctuated}, c \in CharactersContents,
        x \in {EmptyContext, ContextPlain, ContextOrdered}, w \in WordsContents}

EligibilityWords ==
    {W_12ab, W_123ab, W_ab12, W_a1, W_1 \o W_a, W_123, W_2 \o W_2, W_juz, W_JuZ, W_m3,
     <<"1","9","9","9">>, <<"3",".","1","4">>, <<"$","1","5",".","5","0">>,
     <<"$","1","5",".","5">>, <<"1","2","3","4","5","-","a","b","c">>,
     <<"a","b","c","1","2","3","d","e">>, <<"3",":","4","5","p","m">>,
     <<"1","-","1","-","2","1">>, <<"5","0","%">>, <<"#","1","2">>,
     <<"1",",","0","0","0">>, <<"a","b","1">>}

ContextWords ==
    {W_01, W_0a1, W_1o1, W_a \o W_0, W_1 \o W_0, W_0, W_m3 \o W_0, W_juz, W_123,
     W_0 \o W_0 \o W_x}

PunctuationWords ==
    {W_juz, W_juz \o <<"'">>, W_juz \o <<Backtick>>, W_me_s, W_mes, W_d_n,
     <<"x","'","y">>, W_juzbang, <<"'">>, W_me \o <<"?">>}

PunctuationPieces == {W_juz, <<"!">>, <<" ">>, <<"+">>, <<"'", "s">>}

PunctuationTexts ==
    {Concat(p) : p \in StringsUpTo(PunctuationPieces, MaxPieces)}
        \cup {<<"(">> \o W_juz \o <<")", " ", "+">> \o W_me \o <<"+", " ", "a", "-", "b", " ", "!", "!", " ">>
                  \o W_me_s \o <<" ", ".", "@", "x", "@", ".">>,
              W_juzbang \o <<" ", " ", ".", "a", ".", "b", ".", " ", "#", "c", " ", "(">> \o W_juzbang}

\* normalizer._should_apply_character_replacement(word)
ShouldApplyCall ==
    \E word \in EligibilityWords :
        /\ phase = "ready"
        /\ op = ""
        /\ op' = "should_apply_character_replacement"
        /\ arg' = <<word>>
        /\ ret' = ShouldApplyCharacterReplacement(word)
        /\ calls' = calls + 1
        /\ UNCHANGED threads
        /\ UNCHANGED <<files, phase, tables, prev>>

\* normalizer._apply_context_aware_replacements(word)
ContextCall ==
    \E word \in ContextWords :
        /\ phase = "ready"
        /\ op = ""
        /\ op' = "apply_context_aware_replacements"
        /\ arg' = <<word>>
        /\ ret' = ApplyContextAwareReplacements(word)
        /\ calls' = calls + 1
        /\ UNCHANGED threads
        /\ UNCHANGED <<files, phase, tables, prev>>

\* normalizer._evaluate_punctuation_value(word)
EvaluatePunctuationCall ==
    \E word \in PunctuationWords :
        /\ phase = "ready"
        /\ op = ""
        /\ op' = "evaluate_punctuation_value"
        /\ arg' = <<word>>
        /\ ret' = EvaluatePunctuationValue(word)
        /\ calls' = calls + 1
        /\ UNCHANGED threads
        /\ UNCHANGED <<files, phase, tables, prev>>

\* normalizer._apply_punctuation_evaluation_to_text(text)
PunctuationTextCall ==
    \E text \in PunctuationTexts :
        /\ phase = "ready"
        /\ op = ""
        /\ op' = "apply_punctuation_evaluation_to_text"
        /\ arg' = <<text>>
        /\ ret' = ApplyPunctuationEvaluationToText(text)
        /\ calls' = calls + 1
        /\ UNCHANGED threads
        /\ UNCHANGED <<files, phase, tables, prev>>

\* a normalizer constructed from the resources of StepFiles
InitSteps ==
    /\ files \in StepFiles
    /\ phase = "ready"
    /\ TablesAre(LoadedTables(files))
    /\ op = "" /\ arg = <<>> /\ ret = <<>>
    /\ prev = NoCall
    /\ calls = 0
    /\ threads = NoThreads

NextSteps == ShouldApplyCall \/ ContextCall \/ EvaluatePunctuationCall \/ PunctuationTextCall

SpecSteps == InitSteps /\ [][NextSteps]_vars

-----------------------------------------------------------------------------------------------------------------------------------------------------------------------------------------------------------------------------
(* A writer thread in add_variant and a reader thread in                    *)
(* apply_character_replacements on one normalizer.  Neither method takes a  *)
(* lock, so the threads can be switched between any two statements; a step  *)
(* is one access to the shared tables.                                      *)

\* add_variant: if letter not in self.letter_variants: self.letter_variants[letter] = []
EnsureLetter(lv, letter) ==
    IF ~HasKey(lv, letter) THEN Append(lv, <<letter, <<>> >>) ELSE lv

\* add_variant: self.letter_variants[letter].append(variant)
AppendVariant(lv, letter, variant) ==
    DictSet(lv, letter, Append(DictGet(lv, letter), variant))

\* add_variant without the store into the index: a mutant
IndexVariantSkipped(v2l, letter, variant) == v2l

\* add_variant: self.variant_to_letter[variant] = letter
IndexVariant(v2l, letter, variant) == DictSet(v2l, variant, letter)

RaceFiles ==
    {[lexicon |-> OkFile(LexiconPlain), characters |-> OkFile(c),
      context |-> OkFile(EmptyContext), words |-> OkFile(<<>>)] :
        c \in {EmptyCharacters, CharactersPlain}}

RaceWords == {W_m3 \o W_x, W_X \o W_3 \o W_2, W_vv3}

ReaderActive == threads.reader.pc \in {"loop"}

\* a step of the writer while the reader is in its call overlaps that call
ReaderAfterWriterStep == [threads.reader EXCEPT !.overlapped = @ \/ ReaderActive]

\* the writer enters normalizer.add_variant(letter, variant) and lower-cases
\* its arguments
WriterStarts ==
    \E letter \in VariantLetters, variant \in VariantStrings :
        /\ phase = "ready"
        /\ calls < MaxCalls
        /\ threads.writer.pc = "idle"
        /\ VariantCount(AddVariant(letter_variants, variant_to_letter, letter, variant)[1])
               <= MaxVariants
        /\ threads' = [writer |-> [pc |-> "called", letter |-> Lower(letter),
                                    variant |-> Lower(variant),
                                    before |-> <<letter_variants, variant_to_letter>>],
                        reader |-> ReaderAfterWriterStep]
        /\ calls' = calls + 1
        /\ UNCHANGED <<files, phase, tables, op, arg, ret, prev>>

\* the writer makes sure the letter has a list
WriterEnsuresLetter ==
    /\ threads.writer.pc = "called"
    /\ letter_variants' = EnsureLetter(letter_variants, threads.writer.letter)
    /\ threads' = [writer |-> [threads.writer EXCEPT !.pc = "ensured"],
                    reader |-> ReaderAfterWriterStep]
    /\ UNCHANGED <<files, phase, words_set, jejemon_to_normal, common_replacements,
                   variant_to_letter, context_replacements, op, arg, ret, prev, calls>>

\* the writer appends a variant that the list does not hold
WriterAppends ==
    /\ threads.writer.pc = "ensured"
    /\ LET w == threads.writer
           new == ~IsIn(w.variant, DictGet(letter_variants, w.letter))
       IN /\ letter_variants' = IF new THEN AppendVariant(letter_variants, w.letter, w.variant)
                                 ELSE letter_variants
          /\ threads' = [writer |-> [w EXCEPT !.pc = IF new THEN "appended" ELSE "saving"],
                          reader |-> ReaderAfterWriterStep]
    /\ UNCHANGED <<files, phase, words_set, jejemon_to_normal, common_replacements,
                   variant_to_letter, context_replacements, op, arg, ret, prev, calls>>

\* the writer stores the appended variant into the index
WriterIndexes ==
    /\ threads.writer.pc = "appended"
    /\ variant_to_letter' = IndexVariant(variant_to_letter, threads.writer.letter,
                                          threads.writer.variant)
    /\ threads' = [writer |-> [threads.writer EXCEPT !.pc = "saving"],
                    reader |-> ReaderAfterWriterStep]
    /\ UNCHANGED <<files, phase, words_set, jejemon_to_normal, common_replacements,
                   letter_variants, context_replacements, op, arg, ret, prev, calls>>

\* the writer saves characters.json and returns from add_variant
WriterSaves ==
    \E outcome \in SaveOutcomes :
        /\ threads.writer.pc = "saving"
        /\ files' = [files EXCEPT !.characters = SaveCharacters(@, letter_variants, outcome)]
        /\ op' = "add_variant"
        /\ arg' = <<threads.writer.letter, threads.writer.variant, outcome>>
        /\ ret' = None
        /\ threads' = [writer |-> [threads.writer EXCEPT !.pc = "idle"],
                        reader |-> ReaderAfterWriterStep]
        /\ UNCHANGED <<phase, tables, prev, calls>>

\* the reader enters apply_character_replacements(word) and sorts the keys of
\* the index as it is now
ReaderSorts ==
    \E word \in RaceWords :
        /\ phase = "ready"
        /\ calls < MaxCalls
        /\ threads.reader.pc \in {"idle", "returned"}
        /\ threads' = [threads EXCEPT !.reader =
                           [pc |-> "loop", word |-> word,
                            order |-> SortedByLenReverse(Keys(variant_to_letter)),
                            i |-> 1, result |-> word,
                            seen |-> <<letter_variants, variant_to_letter>>,
                            overlapped |-> threads.writer.pc # "idle"]]
        /\ calls' = calls + 1
        /\ UNCHANGED <<files, phase, tables, op, arg, ret, prev>>

\* one turn of the reader's variant loop: the letter is read from the index
\* as it is now
ReaderTurn ==
    /\ threads.reader.pc = "loop"
    /\ threads.reader.i <= Len(threads.reader.order)
    /\ LET r == threads.reader
           variant == r.order[r.i]
       IN threads' = [threads EXCEPT !.reader =
                         [r EXCEPT !.i = @ + 1,
                                   !.result = ApplyVariant(@, variant,
                                                  DictGet(variant_to_letter, variant))]]
    /\ UNCHANGED <<files, phase, tables, op, arg, ret, prev, calls>>

\* the reader applies common_replacements and returns
ReaderReturns ==
    /\ threads.reader.pc = "loop"
    /\ threads.reader.i > Len(threads.reader.order)
    /\ LET result == ApplyCommonFrom(common_replacements, 1, threads.reader.result)
       IN /\ threads' = [threads EXCEPT !.reader.pc = "returned", !.reader.result = result]
          /\ op' = "apply_character_replacements"
          /\ arg' = <<threads.reader.word>>
          /\ ret' = result
    /\ UNCHANGED <<files, phase, tables, prev, calls>>

\* a normalizer shared by the two threads
InitRace ==
    /\ files \in RaceFiles
    /\ phase = "ready"
    /\ TablesAre(LoadedTables(files))
    /\ op = "" /\ arg = <<>> /\ ret = <<>>
    /\ prev = NoCall
    /\ calls = 0
    /\ threads = NoThreads

NextRace ==
    \/ WriterStarts \/ WriterEnsuresLetter \/ WriterAppends \/ WriterIndexes \/ WriterSaves
    \/ ReaderSorts \/ ReaderTurn \/ ReaderReturns

SpecRace == InitRace /\ [][NextRace]_vars

-----
(* The tokenizer on its own: tokenize and detokenize of a normalizer *)

\* the longest generated text
MaxTextLen == 3

W_at_user_hi == <<"@","u","s","e","r"," ","h","i","!">>

TokenAlphabet == {"a", "B", "1", "!", "@", " ", "-"}

TokenTexts == StringsUpTo(TokenAlphabet, MaxTextLen) \cup {W_at_user_hi}

TokenLists == StringsUpTo({W_juz, W_me, <<"a", "!">>}, 2)

\* Tokenizer.tokenize(text)
TokenizeCall ==
    \E text \in TokenTexts :
        /\ phase = "ready"
        /\ op = ""
        /\ op' = "tokenize"
        /\ arg' = <<text>>
        /\ ret' = Tokenize(text)
        /\ calls' = calls + 1
        /\ UNCHANGED threads
        /\ UNCHANGED <<files, phase, tables, prev>>

\* Tokenizer.detokenize(tokens)
DetokenizeCall ==
    \E tokens \in TokenLists :
        /\ phase = "ready"
        /\ op = ""
        /\ op' = "detokenize"
        /\ arg' = <<tokens>>
        /\ ret' = Detokenize(tokens)
        /\ calls' = calls + 1
        /\ UNCHANGED threads
        /\ UNCHANGED <<files, phase, tables, prev>>

NextTokens == TokenizeCall \/ DetokenizeCall

SpecTokens == InitPure /\ [][NextTokens]_vars

-----
(* Claims about normalize_word *)

\* the word of the last normalize_word call
CalledWord == arg[1]

\* C1: normalize_word returns a word whose lower-cased form is in the
\* canonical word set exactly as it was given, whatever the mapping, the
\* variants and the other steps would make of it.
C1_CanonicalWordUnchanged ==
    (op = "normalize_word" /\ Lower(CalledWord) \in words_set) => ret = CalledWord

\* C1 happens: a canonical word given in another letter case, which the
\* mapping would turn into something else, came back unchanged
C1_Witness ==
    /\ op = "normalize_word"
    /\ Lower(CalledWord) \in words_set
    /\ CalledWord # Lower(CalledWord)
    /\ Truthy(DictGet(jejemon_to_normal, Lower(CalledWord)))
    /\ ret = CalledWord

\* the keys of the word mapping that equal w up to letter case
KeysUpToCase(w) ==
    {i \in DOMAIN jejemon_to_normal : Lower(jejemon_to_normal[i][1]) = Lower(w)}

\* C2: a word that is not canonical and equals a key of the word mapping up
\* to letter case is looked up successfully, and normalize_word returns that
\* key's normal form.  (Keys with an empty normal form are left out here.)
C2_LookupIgnoresCase ==
    (/\ op = "normalize_word"
     /\ Lower(CalledWord) \notin words_set
     /\ KeysUpToCase(CalledWord) # {}
     /\ \A i \in KeysUpToCase(CalledWord) : jejemon_to_normal[i][2] # <<>>)
    => \E i \in KeysUpToCase(CalledWord) :
           /\ GetNormalWord(CalledWord) = jejemon_to_normal[i][2]
           /\ ret = jejemon_to_normal[i][2]

\* the value an accepted lookup gives, None otherwise
Accepted(v) == IF Truthy(v) THEN v ELSE None

\* the slang keys that are most similar to w
BestKeys(w) ==
    {i \in DOMAIN jejemon_to_normal :
        \A k \in DOMAIN jejemon_to_normal :
            FracLE(Similarity(w, jejemon_to_normal[k][1]),
                   Similarity(w, jejemon_to_normal[i][1]))}

\* step 4 (and the second half of step 5): the mapping of the first of the
\* most similar keys, when its score is greater than 0.6 and it has a mapping
FuzzyResult(w) ==
    IF jejemon_to_normal = <<>> THEN None
    ELSE LET i == CHOOSE i \in BestKeys(w) : \A k \in BestKeys(w) : i <= k
             key == jejemon_to_normal[i][1]
             score == Similarity(w, key)
         IN IF 5 * score[1] > 3 * score[2]
            THEN Accepted(DictGet(jejemon_to_normal, Lower(key)))
            ELSE None

\* the results of the six steps of the word resolution, None for a step
\* that does not succeed
StepResults(w) ==
    LET lemma == Lemmatize(w)
        lemma_lookup == Accepted(DictGet(jejemon_to_normal, Lower(lemma)))
    IN << IF Lower(w) \in words_set THEN w ELSE None,
          Accepted(DictGet(jejemon_to_normal, Lower(w))),
          IF ShouldApplyCharacterReplacement(w)
          THEN Accepted(DictGet(jejemon_to_normal, Lower(ApplyCharacterReplacements(w))))
          ELSE None,
          FuzzyResult(w),
          IF lemma = w THEN None
          ELSE IF lemma_lookup # None THEN lemma_lookup
          ELSE FuzzyResult(lemma),
          w >>

\* the first step that succeeds
FirstSuccess(steps) ==
    CHOOSE n \in DOMAIN steps : steps[n] # None /\ \A k \in 1..(n - 1) : steps[k] = None

\* C3: normalize_word returns the result of the first step that succeeds in
\* the order canonical, lookup, replacement and lookup, fuzzy match above
\* 0.6, lemma (lookup, else fuzzy match), the word itself.
C3_FirstSuccessWins ==
    op = "normalize_word" =>
        ret = StepResults(CalledWord)[FirstSuccess(StepResults(CalledWord))]

\* C3 happens: the best fuzzy score was exactly 0.6 for a key that has a
\* mapping, the match was not accepted and the word came back
C3_Witness ==
    /\ op = "normalize_word"
    /\ jejemon_to_normal # <<>>
    /\ FracEq(FindBestMatch(CalledWord, GetAllJejemonWords)[2], Threshold)
    /\ Truthy(GetNormalWord(FindBestMatch(CalledWord, GetAllJejemonWords)[1]))
    /\ FirstSuccess(StepResults(CalledWord)) = 6
    /\ ret = CalledWord

-----------------------------------------------------------------------------
(* Claims about normalize_text *)

ResultFields ==
    {"original", "punctuation_evaluated", "character_replaced", "tokenized", "normalized"}

\* the number of space-separated tokens of a field
TokenCount(field) == Len(Split(field))

HasWhitespace(s) == \E i \in DOMAIN s : s[i] \in Whitespace

C5_TokenOrderPreserved ==
    op = "normalize_text" =>
        LET tokens == Tokenize(ret.character_replaced)
        IN /\ ret.tokenized = Join(tokens)
           /\ ret.normalized = Join([i \in DOMAIN tokens |-> NormalizeWord(tokens[i])])

\* C5 happens: three tokens, the first two resolved to different words, so
\* a reordering would show
C5_Witness ==
    /\ op = "normalize_text"
    /\ LET tokens == Tokenize(ret.character_replaced)
       IN /\ Len(tokens) = 3
          /\ NormalizeWord(tokens[1]) # NormalizeWord(tokens[2])
          /\ NormalizeWord(tokens[1]) # tokens[1]
          /\ ret.normalized = Join([i \in DOMAIN tokens |-> NormalizeWord(tokens[i])])

-----------------------------------------------------------------------------
(* Claims about get_normalization_confidence *)

\* the sum over the token pairs i..n of 1 for an unchanged pair and of the
\* similarity for a changed one, over the denominator den
RECURSIVE PairScoreSum(_, _, _, _)
PairScoreSum(a, b, i, den) ==
    IF i > Len(a) THEN 0
    ELSE (IF a[i] = b[i] THEN den
          ELSE (den \div Similarity(a[i], b[i])[2]) * Similarity(a[i], b[i])[1])
         + PairScoreSum(a, b, i + 1, den)

RECURSIVE Product(_, _)
Product(list, i) == IF i > Len(list) THEN 1 ELSE list[i] * Product(list, i + 1)

\* the mean pair score of two token lists of the same length n > 0
MeanPairScore(a, b) ==
    LET den == Product([i \in DOMAIN a |-> Max2(Len(a[i]), Len(b[i]))], 1)
    IN <<PairScoreSum(a, b, 1, den), den * Len(a)>>

\* C6: the confidence is 0 for identical strings, else 0.5 for different
\* token counts, else 0 without tokens, else the mean pair score; and it
\* lies in [0, 1].
C6_Confidence ==
    op = "confidence" =>
        LET a == Tokenize(arg[1])
            b == Tokenize(arg[2])
        IN /\ FracEq(ret, IF arg[1] = arg[2] THEN <<0, 1>>
                          ELSE IF Len(a) # Len(b) THEN <<1, 2>>
                          ELSE IF Len(a) = 0 THEN <<0, 1>>
                          ELSE MeanPairScore(a, b))
           /\ ret[2] > 0
           /\ 0 <= ret[1] /\ ret[1] <= ret[2]

\* C6 happens: two different strings with the same number of tokens, one
\* pair unchanged and one changed, and a confidence strictly between 0 and 1
C6_Witness ==
    /\ op = "confidence"
    /\ arg[1] # arg[2]
    /\ LET a == Tokenize(arg[1])
           b == Tokenize(arg[2])
       IN /\ Len(a) = Len(b) /\ Len(a) >= 2
          /\ \E i \in DOMAIN a : a[i] = b[i]
          /\ \E i \in DOMAIN a : a[i] # b[i]
    /\ 0 < ret[1] /\ ret[1] < ret[2]

-----------------------------------------------------------------------------
(* Claims about add_variant *)

\* C7: on a constructed normalizer, after construction and after any
\* add_variant calls, variant_to_letter is the mapping that
\* _create_variant_to_letter builds from the current letter_variants: the
\* same keys with the same letters, also when the variant added is already
\* listed under another letter.
C7_IndexEqualsRebuild ==
    phase = "ready" =>
        DictEq(variant_to_letter, CreateVariantToLetter(letter_variants))

\* the last two calls were add_variant with the same letter and the same
\* variant up to letter case
SameAddTwice ==
    /\ op = "add_variant"
    /\ prev.op = "add_variant"
    /\ Lower(arg[1]) = Lower(prev.arg[1])
    /\ Lower(arg[2]) = Lower(prev.arg[2])

\* the number of times x is in list
Occurrences(x, list) == Cardinality({i \in DOMAIN list : list[i] = x})

\* C8: a second add_variant with the same letter and variant, up to letter
\* case, leaves letter_variants and variant_to_letter as the first call left
\* them: the variant is listed once under the lower-cased letter and that
\* letter is one key, whatever the letter case of the loaded table.
C8_SecondAddChangesNothing ==
    SameAddTwice =>
        /\ letter_variants = prev.letter_variants
        /\ variant_to_letter = prev.variant_to_letter
        /\ Occurrences(Lower(arg[2]), DictGet(letter_variants, Lower(arg[1]))) = 1
        /\ Occurrences(Lower(arg[1]), Keys(letter_variants)) = 1

\* C8 happens: the second call differs from the first in letter case, on a
\* table that was loaded with the letter in upper case
C8_Witness ==
    /\ SameAddTwice
    /\ SubSeq(arg, 1, 2) # SubSeq(prev.arg, 1, 2)
    /\ HasKey(letter_variants, W_E)
    /\ Lower(arg[1]) = W_e

\* no letter of the index and no common replacement brings v back
NotReintroduced(v) ==
    /\ \A i \in DOMAIN variant_to_letter : ~Contains(Lower(variant_to_letter[i][2]), v)
    /\ \A i \in DOMAIN common_replacements : ~Contains(Lower(common_replacements[i][2]), v)

\* C9: add_variant returns whatever the write of characters.json does; the
\* variant is then in letter_variants under the letter and in
\* variant_to_letter, also when the write failed; after a write that
\* succeeded the file's letter_variants is the table in memory; and a later
\* apply_character_replacements, after a write that failed, works with the
\* index that holds the variant and leaves no occurrence of it in the word.
C9_AddVariantPersistsAndKeeps ==
    /\ op = "add_variant" =>
          /\ ret = None
          /\ IsIn(Lower(arg[2]), DictGet(letter_variants, Lower(arg[1])))
          /\ HasKey(variant_to_letter, Lower(arg[2]))
          /\ arg[3] = "saved" =>
                files.characters = OkFile([letter_variants |-> letter_variants])
    /\ (op = "apply_character_replacements" /\ prev.op = "add_variant"
            /\ prev.arg[3] # "saved") =>
          /\ IsIn(Lower(prev.arg[2]), DictGet(letter_variants, Lower(prev.arg[1])))
          /\ HasKey(variant_to_letter, Lower(prev.arg[2]))
          /\ ret = ApplyWithIndex(variant_to_letter, arg[1])
          /\ (Len(prev.arg[2]) = 1 /\ NotReintroduced(Lower(prev.arg[2]))) =>
                ~Contains(Lower(ret), Lower(prev.arg[2]))

\* C9 happens: x was added to an empty table, the write failed and left no
\* JSON document, and the next apply_character_replacements replaced the x
C9_Witness ==
    /\ op = "apply_character_replacements"
    /\ prev.op = "add_variant"
    /\ prev.arg = <<W_a, W_X, "write_failed">>
    /\ files.characters.st = "invalid"
    /\ letter_variants = << <<W_a, <<W_x>> >> >>
    /\ Contains(Lower(arg[1]), W_x)
    /\ ~Contains(Lower(ret), W_x)

-----------------------------------------------------------------------------
(* Claims about construction *)

\* C10: JejemonNormalizer() returns a normalizer whatever state each of the
\* four resources is in (missing, unreadable, malformed, of the wrong
\* shape), with the tables of the resources that loaded and empty tables for
\* the others.
C10_ConstructionNeverFails ==
    op = "__init__" => (phase = "ready" /\ TablesAre(LoadedTables(files)))

-----------------------------------------------------------------------------
(* Claims about EditDistance *)

RECURSIVE Levenshtein(_, _)
\* the standard recurrence of the edit distance with unit costs
Levenshtein(a, b) ==
    IF a = <<>> THEN Len(b)
    ELSE IF b = <<>> THEN Len(a)
    ELSE Min2(Levenshtein(Tail(a), b) + 1,
              Min2(Levenshtein(a, Tail(b)) + 1,
                   Levenshtein(Tail(a), Tail(b)) + (IF Head(a) # Head(b) THEN 1 ELSE 0)))

\* C11: calculate(a, b) is the Levenshtein distance of a and b by the
\* standard recurrence; it is calculate(b, a), and it is 0 when a = b; also
\* with empty strings and with the first argument the shorter one.
C11_CalculateIsLevenshtein ==
    op = "calculate" =>
        /\ ret = Levenshtein(arg[1], arg[2])
        /\ ret = Calculate(arg[2], arg[1])
        /\ (arg[1] = arg[2] => ret = 0)

\* C11 happens: the first argument is the shorter one, is not empty, and the
\* distance takes a substitution and an insertion
C11_Witness ==
    /\ op = "calculate"
    /\ arg[1] # <<>>
    /\ Len(arg[1]) < Len(arg[2])
    /\ ret > Len(arg[2]) - Len(arg[1])
    /\ ret < Len(arg[2])

\* C12: similarity(a, b) is 1 - distance/max(|a|, |b|), lies in [0, 1]
\* because the distance is at most max(|a|, |b|), and is 1 for two empty
\* strings.
C12_SimilarityInUnitInterval ==
    op = "similarity" =>
        LET max_len == Max2(Len(arg[1]), Len(arg[2]))
            distance == Levenshtein(arg[1], arg[2])
        IN /\ distance <= max_len
           /\ ret[2] > 0
           /\ 0 <= ret[1] /\ ret[1] <= ret[2]
           /\ (max_len > 0 => FracEq(ret, <<max_len - distance, max_len>>))
           /\ (max_len = 0 => FracEq(ret, <<1, 1>>))

\* C12 happens: two strings of different lengths with a similarity strictly
\* between 0 and 1
C12_Witness ==
    /\ op = "similarity"
    /\ Len(arg[1]) < Len(arg[2])
    /\ 0 < ret[1] /\ ret[1] < ret[2]

-----------------------------------------------------------------------------
(* Claims about Lemmatizer and FuzzyMatcher *)

\* the prefixes and the suffixes of the rules, and the empty affix
AnyPrefix == {PrefixRules[i] : i \in DOMAIN PrefixRules} \cup {<<>>}
AnySuffix == {SuffixRules[i] : i \in DOMAIN SuffixRules} \cup {<<>>}

\* C14: lemmatize returns the word unchanged when what is left after one
\* prefix strip and one suffix strip has fewer than 2 characters; a result
\* that is not the word is the word without at most one prefix and at most
\* one suffix of the rules, has at least 2 characters, and the suffix had
\* at least one character of the word in front of it.
C14_LemmatizeKeepsShortWords ==
    op = "lemmatize" =>
        LET word == arg[1]
            candidate == StripSuffix(StripPrefix(word))
        IN /\ (Len(candidate) < 2 => ret = word)
           /\ (ret # word =>
                  /\ Len(ret) >= 2
                  /\ \E p \in AnyPrefix, q \in AnySuffix : word = p \o ret \o q)
           /\ \A i \in DOMAIN SuffixRules :
                  SuffixApplies(StripPrefix(word), SuffixRules[i])
                      => Len(StripPrefix(word)) - Len(SuffixRules[i]) >= 1

\* C14 happens: a prefix and a suffix were stripped, one character was
\* left, and the word came back as it was
C14_Witness ==
    /\ op = "lemmatize"
    /\ LET word == arg[1]
           candidate == StripSuffix(StripPrefix(word))
       IN /\ Len(StripPrefix(word)) < Len(word)
          /\ Len(candidate) < Len(StripPrefix(word))
          /\ Len(candidate) = 1
    /\ ret = arg[1]

\* the similarity of the word of find_best_match to its i-th candidate
ScoreOf(i) == Similarity(arg[1], arg[2][i])

\* C15: find_best_match returns a candidate of the largest similarity with
\* that similarity, the first one in the order given among those of the
\* largest similarity, and the empty string with 0.0 when there is no
\* candidate of a similarity above 0; "helo" against hello, world gives
\* hello with more than 0.6.
C15_FindBestMatchIsFirstMaximum ==
    op = "find_best_match" =>
        LET candidates == arg[2]
            positive == {i \in DOMAIN candidates : FracGT(ScoreOf(i), Zero)}
        IN /\ (positive = {} => (ret[1] = <<>> /\ FracEq(ret[2], Zero)))
           /\ (positive # {} =>
                  \E k \in positive :
                      /\ \A i \in DOMAIN candidates : FracLE(ScoreOf(i), ScoreOf(k))
                      /\ \A i \in 1..(k - 1) : FracGT(ScoreOf(k), ScoreOf(i))
                      /\ ret[1] = candidates[k]
                      /\ FracEq(ret[2], ScoreOf(k)))
           /\ ((arg[1] = W_helo /\ candidates = <<W_hello, W_world>>) =>
                  (ret[1] = W_hello /\ FracGT(ret[2], Threshold)))

\* C15 happens: two different candidates of the same similarity above 0,
\* and the first one is returned
C15_Witness ==
    /\ op = "find_best_match"
    /\ Len(arg[2]) = 2
    /\ arg[2][1] # arg[2][2]
    /\ FracEq(ScoreOf(1), ScoreOf(2))
    /\ FracGT(ScoreOf(1), Zero)
    /\ ret[1] = arg[2][1]

-----------------------------------------------------------------------------
(* Claims about apply_character_replacements *)

\* no letter of the index is, or holds, a variant of the index
NoChainedVariants ==
    \A i \in DOMAIN variant_to_letter :
        LET base == variant_to_letter[i][2]
        IN /\ ~HasKey(variant_to_letter, Lower(base)) \/ Lower(base) = variant_to_letter[i][1]
           /\ \A k \in DOMAIN base :
                  ~HasKey(variant_to_letter, <<LowerChar(base[k])>>)
                      \/ <<LowerChar(base[k])>> = variant_to_letter[i][1]

\* the variants of more than one character, other than their own letter,
\* that the whole word equals up to letter case
WholeWordVariants(word) ==
    {i \in DOMAIN variant_to_letter :
        /\ Len(variant_to_letter[i][1]) > 1
        /\ variant_to_letter[i][1] # variant_to_letter[i][2]
        /\ Lower(word) = variant_to_letter[i][1]}

\* the word, or the letter of the variant that the whole word is
WholeWordReplaced(word) ==
    IF WholeWordVariants(word) = {} THEN word
    ELSE variant_to_letter[CHOOSE i \in WholeWordVariants(word) : TRUE][2]

\* the character c, or the letter that c is a one-character variant of
LetterOf(c) ==
    IF HasKey(variant_to_letter, <<LowerChar(c)>>)
           /\ DictGet(variant_to_letter, <<LowerChar(c)>>) # <<LowerChar(c)>>
    THEN DictGet(variant_to_letter, <<LowerChar(c)>>)
    ELSE <<c>>

\* every character of the word replaced by its letter
EveryOccurrenceReplaced(word) == Concat([k \in DOMAIN word |-> LetterOf(word[k])])

-----------------------------------------------------------------------------
(* Claims about a normalizer without rules *)

\* every table of the normalizer is empty
AllTablesEmpty == TablesAre(NoTables)

\* C16: with every table empty, as after no resource could be loaded,
\* normalize_word returns its word and the normalized field of
\* normalize_text is its tokenized field.
C16_IdentityWithoutRules ==
    AllTablesEmpty =>
        /\ (op = "normalize_word" => ret = arg[1])
        /\ (op = "normalize_text" => ret.normalized = ret.tokenized)

\* C16 happens: no resource was loaded, and a word that the lemmatizer
\* shortens came back as it was
C16_Witness ==
    /\ files \in DegradedFiles
    /\ AllTablesEmpty
    /\ op = "normalize_word"
    /\ arg[1] = W_nagjuzt
    /\ Lemmatize(arg[1]) # arg[1]
    /\ ret = arg[1]

-----------------------------------------------------------------------------
(* Claims about the steps of the normalizer *)

\* the formal code patterns as stated: letters then digits and digits then
\* letters with at least 2 of each, dash-joined long codes, 3-part codes
StatedCodePatterns ==
    { <<AtLeast(UpperChars, 2), AtLeast(Digits, 2)>>,
      <<AtLeast(Digits, 2), AtLeast(UpperChars, 2)>>,
      <<AtLeast(UpperChars \cup Digits, 5), Lit("-"), AtLeast(UpperChars \cup Digits, 3)>>,
      <<AtLeast(UpperChars, 3), AtLeast(Digits, 3), AtLeast(UpperChars, 2)>> }

\* C17: _should_apply_character_replacement returns False exactly when the
\* word is canonical, or has a direct mapping, or is all digits and at
\* least 3 long, or matches a numeric-format pattern, or matches a formal
\* code pattern (letters then digits, or digits then letters, with at least
\* 2 of each; dash-joined long codes; 3-part codes); True otherwise.
C17_EligibilityAsStated ==
    op = "should_apply_character_replacement" =>
        LET word == arg[1]
        IN (ret = FALSE) <=>
              \/ IsInWordsTxt(word)
              \/ Truthy(GetNormalWord(word))
              \/ (IsDigit(word) /\ Len(word) >= 3)
              \/ \E pat \in NumberPatterns : FullMatch(pat, word)
              \/ \E pat \in StatedCodePatterns : FullMatch(pat, word)

\* the least element of a set of numbers that is not empty
SetMin(S) == CHOOSE k \in S : \A j \in S : k <= j

\* every occurrence of the character c in word replaced by replacement
EveryCharReplaced(word, c, replacement) ==
    Concat([k \in DOMAIN word |-> IF word[k] = c THEN replacement ELSE <<word[k]>>])

RECURSIVE WordAfter(_, _)
\* the word after the first n characters of the context rules, in their
\* declared order
WordAfter(word, n) ==
    IF n = 0 THEN word
    ELSE LET before == WordAfter(word, n - 1)
             char == context_replacements[n][1]
             rules == context_replacements[n][2]
             matching == {k \in DOMAIN rules.context_rules :
                             Search(rules.context_rules[k].pattern, before)}
             replacement == IF matching = {} THEN rules.default
                            ELSE rules.context_rules[SetMin(matching)].replacement
         IN IF ~Contains(before, char) THEN before
            ELSE IF Len(char) = 1 THEN EveryCharReplaced(before, char[1], replacement)
            ELSE StrReplace(before, char, replacement)

\* C18: _apply_context_aware_replacements returns an exempt word as it is;
\* otherwise, for the characters of the context rules in declared order,
\* every occurrence of a character present in the word as rewritten so far
\* is replaced by the replacement of the first pattern found in that word,
\* or by the default when none is found, and apply_character_replacements
\* is applied once to the outcome.
C18_ContextReplacementsInOrder ==
    op = "apply_context_aware_replacements" =>
        ret = IF ~ShouldApplyCharacterReplacement(arg[1]) THEN arg[1]
              ELSE ApplyCharacterReplacements(
                       WordAfter(arg[1], Len(context_replacements)))

\* C18 happens: in 01 the 0 becomes o by the rule ^0, and only then does
\* the rule o1 of the later character 1 find its pattern
C18_Witness ==
    /\ op = "apply_context_aware_replacements"
    /\ files.context.data = ContextOrdered
    /\ arg[1] = W_01
    /\ ~Search(OneAfterO, arg[1])
    /\ ret = W_o \o W_l

\* C19: _evaluate_punctuation_value strips the contraction markers to get a
\* modified word, looks both words up, and for every word returns: the
\* mapping of the original with False when only the original is mapped; the
\* mapping of the modified word with True when the modified word is mapped;
\* the word itself with False when neither is.  The flag is True exactly
\* when the stripped word has a mapping.
C19_PunctuationPrecedence ==
    op = "evaluate_punctuation_value" =>
        LET word == arg[1]
            modified == ReplacePatternsFrom(WordMeaningfulPatterns, 1, word)
        IN /\ ret[2] = Truthy(GetNormalWord(modified))
           /\ ret[1] = IF Truthy(GetNormalWord(modified)) THEN GetNormalWord(modified)
                       ELSE IF Truthy(GetNormalWord(word)) THEN GetNormalWord(word)
                       ELSE word

\* the word without its leading and its trailing characters of StripSet
Core(word) ==
    LET kept == {i \in DOMAIN word : word[i] \notin StripSet}
    IN IF kept = {} THEN <<>>
       ELSE SubSeq(word, SetMin(kept), CHOOSE k \in kept : \A j \in kept : j <= k)

\* C20: after the contraction markers are stripped from the whole text,
\* _apply_punctuation_evaluation_to_text keeps every space-delimited word
\* with a direct mapping as it is, and takes from every other word all its
\* leading and trailing meaningful punctuation other than + and @, keeping
\* what is inside the word.
C20_PunctuationStrippedAtEnds ==
    op = "apply_punctuation_evaluation_to_text" =>
        LET words == Split(ReplacePatternsFrom(TextMeaningfulPatterns, 1, arg[1]))
        IN ret = Join([i \in DOMAIN words |->
                          IF Truthy(GetNormalWord(words[i])) THEN words[i]
                          ELSE Core(words[i])])

\* C20 happens: juz! is mapped and keeps its "!", (juz! is not and loses
\* both ends, .a.b. keeps its inner dot
C20_Witness ==
    /\ op = "apply_punctuation_evaluation_to_text"
    /\ files.lexicon.data = LexiconPunctuated
    /\ arg[1] = W_juzbang \o <<" ", " ", ".", "a", ".", "b", ".", " ", "#", "c", " ", "(">> \o W_juzbang
    /\ ret = W_juzbang \o <<" ", "a", ".", "b", " ", "c", " ">> \o W_juz

-----------------------------------------------------------------------------
(* Claims about the tokenizer *)

\* the maximal runs of characters of TokenChars in s, from left to right
MaximalRuns(s) ==
    LET starts == {i \in DOMAIN s : s[i] \in TokenChars /\ (i = 1 \/ s[i - 1] \notin TokenChars)}
        EndOf(i) == SetMax({j \in i..Len(s) : \A k \in i..j : s[k] \in TokenChars})
        Nth(n) == CHOOSE i \in starts : Cardinality({j \in starts : j <= i}) = n
    IN [n \in 1..Cardinality(starts) |-> SubSeq(s, Nth(n), EndOf(Nth(n)))]

\* C21: tokenize returns, in left-to-right order and lower-cased, exactly
\* the maximal runs of word characters and the symbols @ # $ + ! ' of the
\* text; a run that begins or ends with a symbol, such as @user or hi!, is
\* returned whole.
C21_TokensAreMaximalRuns ==
    op = "tokenize" => ret = MaximalRuns(Lower(arg[1]))

-----------------------------------------------------------------------------
(* Claims about the order of apply_character_replacements *)

\* the variants of the index that are one character long, in its order
SingleVariants ==
    LET IsSingle(k) == Len(k) = 1
    IN SelectSeq(Keys(variant_to_letter), IsSingle)

\* the longer variants that equal the word up to letter case
WholeVariants(word) ==
    {k \in DOMAIN variant_to_letter :
        /\ Len(variant_to_letter[k][1]) > 1
        /\ variant_to_letter[k][1] = Lower(word)
        /\ variant_to_letter[k][2] # variant_to_letter[k][1]}

\* the word the one-character variants are applied to: the letter of the
\* longer variant that the word equals, or the word itself
ResolvedWhole(word) ==
    IF WholeVariants(word) = {} THEN word
    ELSE variant_to_letter[CHOOSE k \in WholeVariants(word) : TRUE][2]

\* C22: apply_character_replacements takes the variants from the longest to
\* the shortest: a word that equals a longer variant up to letter case
\* becomes that variant's letter before any one-character variant is
\* applied, also when one-character variants occur inside it, and the
\* entries of common_replacements are applied only after all the variants.
C22_LongestVariantFirst ==
    op = "apply_character_replacements" =>
        ret = ApplyCommonFrom(common_replacements, 1,
                  ApplyVariantsFrom(variant_to_letter, SingleVariants, 1,
                                    ResolvedWhole(arg[1])))

\* C22 happens: v is a variant of u and comes first in the index, vv is a
\* variant of w, and vv becomes w, not uu
C22_Witness ==
    /\ op = "apply_character_replacements"
    /\ Keys(variant_to_letter) = <<W_v, W_vv>>
    /\ DictGet(variant_to_letter, W_v) = W_u
    /\ DictGet(variant_to_letter, W_vv) = W_w
    /\ arg[1] = W_vv
    /\ ret = W_w

\* after the variants: 4 is a variant of a and stands for "for" in
\* common_replacements, and the word 4 becomes a
C22_CommonAfterVariants ==
    /\ op = "apply_character_replacements"
    /\ DictGet(variant_to_letter, W_4) = W_a
    /\ DictGet(common_replacements, W_4) = W_for
    /\ arg[1] = W_4
    /\ ret = W_a

-----------------------------------------------------------------------------
(* Claims about add_variant and concurrent readers *)

\* the variants that the table lv lists, lower-cased
ListedVariants(lv) ==
    UNION {{Lower(lv[k][2][j]) : j \in DOMAIN lv[k][2]} : k \in DOMAIN lv}

\* the steps of the writer amount to add_variant: when the writer is back
\* from the call the tables are those of AddVariant on the tables it found
WriterStepsAreAddVariant ==
    (threads.writer.pc = "idle" /\ threads.writer.before # <<>>) =>
        <<letter_variants, variant_to_letter>> =
            AddVariant(threads.writer.before[1], threads.writer.before[2],
                       threads.writer.letter, threads.writer.variant)

\* C23, the serialized half: a reader whose call no step of add_variant
\* overlaps has sorted an index that maps every variant the table lists,
\* and returns what apply_character_replacements returns on that index.
C23_SerializedReaderSeesEveryVariant ==
    (threads.reader.pc = "returned" /\ ~threads.reader.overlapped) =>
        LET r == threads.reader
        IN /\ \A v \in ListedVariants(r.seen[1]) : IsIn(v, r.order)
           /\ r.result = ApplyWithIndex(r.seen[2], r.word)

\* C23, the interleaved half: the reader has sorted the index between the
\* writer's append and its store into the index, when the table listed the
\* variant x and the index did not map it, and has returned m3x with its x
\* unrewritten
C23_Witness ==
    LET r == threads.reader
    IN /\ r.pc = "returned"
       /\ r.overlapped
       /\ r.word = W_m3 \o W_x
       /\ W_x \in ListedVariants(r.seen[1])
       /\ ~HasKey(r.seen[2], W_x)
       /\ ~IsIn(W_x, r.order)
       /\ Contains(r.result, W_x)

-----------------------------------------------------------------------------
(* Claims about what normalize_word can return *)

\* the values stored in the word mapping
MappingValues == {jejemon_to_normal[i][2] : i \in DOMAIN jejemon_to_normal}

\* C24: for every word and every content of the tables, normalize_word
\* returns the word itself, unchanged, or a value stored in the word
\* mapping, never the character-replaced word, the lemma or the matched
\* key, and never the empty string for a word that is not empty: a mapping
\* whose value is empty counts as absent.
C24_ReturnsWordOrMappingValue ==
    op = "normalize_word" =>
        /\ ret = CalledWord \/ ret \in MappingValues
        /\ CalledWord # <<>> => ret # <<>>
        /\ ret # None

\* C24 happens: the character replacements rewrite the word, the rewritten
\* word has no mapping, and normalize_word returns the word as it was given
C24_Witness ==
    /\ op = "normalize_word"
    /\ ~IsInWordsTxt(CalledWord)
    /\ ShouldApplyCharacterReplacement(CalledWord)
    /\ ApplyCharacterReplacements(CalledWord) # CalledWord
    /\ ApplyCharacterReplacements(CalledWord) \notin MappingValues
    /\ ~Truthy(GetNormalWord(ApplyCharacterReplacements(CalledWord)))
    /\ ret = CalledWord

\* an empty normal form counts as absent: juz is a key whose value is empty,
\* the fuzzy match finds juz itself, and normalize_word returns juz
C24_EmptyValueIsAbsent ==
    /\ op = "normalize_word"
    /\ CalledWord = W_juz
    /\ GetNormalWord(W_juz) = <<>>
    /\ ret = W_juz

=============================================================================
